---- MODULE Spec2Model ----
(***************************************************************************)
(* UpPromote API -> Google Sheets synchronisation (Code.js, Setup.js).     *)
(*                                                                         *)
(* The model has these parts:                                              *)
(*   - the paginated fetch clients: makeApiRequest (Code.js) and           *)
(*     ApiClient.makeRequest (Setup.js), one action per loop iteration     *)
(*     (one HTTP request and the handling of its answer);                  *)
(*   - the sheet writers writeDataToSheet / writeDataWithFormatting on a   *)
(*     grid of cells;                                                      *)
(*   - the orchestrators pullUpPromoteData / pullUpPromoteDataEnhanced,    *)
(*     one run at a time and two runs writing the same table;              *)
(*   - setupScript, which stores, tests and on failure deletes the key;    *)
(*   - the connection tests, the trigger functions and the utilities       *)
(*     (validateConfig, logError, formatDate, sanitizeString, the row      *)
(*     mappings), each called on inputs drawn from small sets.             *)
(* The upstream server, the transport and the spreadsheet backend are the  *)
(* environment: their answers are chosen nondeterministically.             *)
(***************************************************************************)
EXTENDS Integers, Sequences, FiniteSets, TLC

(***************************************************************************)
(* Bounds of the model.                                                    *)
(***************************************************************************)
\* HTTP requests one top-level fetch may issue before the model stops it.
MaxRequests == 5
\* Short pages hold 0..MaxData records; a full page holds PageLimit.
MaxData == 1
\* Page numbers the server reports in meta.current_page / meta.last_page.
MaxPage == 3
\* HTTP requests one fetch of a run may issue before the model stops it.
MaxRunRequests == 2
\* Failures (of a request, of a backend call) the environment produces in a run.
MaxFaults == 1

(***************************************************************************)
(* Program constants.                                                      *)
(***************************************************************************)
MaxRetries == 3
PageLimit == 100
InterRequestDelay == 1000
PageDelay == 500
TimeoutDelay == 2000

API_BASE_URL == "https://aff-api.uppromote.com/api/v1"

VARIABLES
    fpc,            \* position of the fetch: "idle", "loop", "returned", "threw"
    client,         \* "ApiClient" (Setup.js) or "makeApiRequest" (Code.js)
    apiKey,         \* the credential the client sends
    endpoint,       \* endpoint argument of the fetch
    params,         \* params argument of the fetch
    page,           \* local variable page of the running frame
    allData,        \* local variable allData of the running frame
    retryCount,     \* retryCount argument of the running frame
    frames,         \* suspended frames of ApiClient.makeRequest, outermost first
    requestCount,   \* ApiClient.requestCount
    fetchError,     \* the error the fetch threw
    events,         \* requests, responses and sleeps of the current fetch, in order
    serverLastPage, \* 0: arbitrary server; K > 0: every answer is 200 with
                    \* meta = {current_page: requested page, last_page: K}
    httpCount,      \* HTTP requests issued so far
    faults,         \* failures the environment has produced so far
    sheets,         \* the spreadsheet: sheet name -> sheet, for the sheets that exist
    written,        \* the writes made by the writer under test, in order
    writers,        \* the writes in progress at the same time: for each its
                    \* writer, headers, rows and the step it is at
    rpc,            \* position of the run: "idle", "running", "done", "threw"
    variant,        \* "enhanced" (pullUpPromoteDataEnhanced) or "basic" (pullUpPromoteData)
    storedKey,      \* script property UPPROMOTE_API_KEY
    configKey,      \* CONFIG.API_KEY
    resIdx,         \* index of the resource being pulled
    dataCounts,     \* dataCounts of pullUpPromoteDataEnhanced
    runError,       \* the error the run threw
    attempts,       \* what happened to each resource pulled so far, in order
    logs,           \* the lines written with Logger.log by the call under test
    triggers,       \* the project's triggers: their handler functions, in order
    call            \* the last call of a utility: function, arguments, outcome

fetchVars == <<fpc, client, apiKey, endpoint, params, page, allData, retryCount,
               frames, requestCount, fetchError, events, serverLastPage,
               httpCount, faults>>

sheetVars == <<sheets, written, writers>>

runVars == <<rpc, variant, storedKey, configKey, resIdx, dataCounts, runError,
             attempts>>

utilVars == <<logs, triggers, call>>

vars == <<fetchVars, sheetVars, runVars, utilVars>>

(***************************************************************************)
(* JavaScript values.                                                      *)
(***************************************************************************)
\* An object without properties; objects are functions from property names.
EmptyObject == [k \in {} |-> 0]

NoError == [name |-> "none", msg |-> <<>>]

\* error.toString(): "<name>: <message>", as a sequence of words.
ErrorToString(e) == <<e.name>> \o e.msg

\* String.prototype.includes for one word.
Includes(words, w) == \E i \in 1..Len(words) : words[i] = w

\* responseData.meta.current_page < responseData.meta.last_page; a missing
\* property is undefined and every comparison with undefined is false.
JsLess(obj, a, b) ==
    /\ a \in DOMAIN obj
    /\ b \in DOMAIN obj
    /\ obj[a] < obj[b]

(***************************************************************************)
(* The upstream server and the transport (UrlFetchApp.fetch).              *)
(***************************************************************************)
\* Record i of page p.
RawRecord(p, i) == [id |-> p * 1000 + i]

PageData(p, n) == [i \in 1..n |-> RawRecord(p, i)]

DataLens == (0..MaxData) \cup {PageLimit}

Metas == {EmptyObject} \cup [current_page : 1..MaxPage, last_page : 1..MaxPage]

JsonBody(hasData, data, hasMeta, meta, hasNext) ==
    [k \in (IF hasData THEN {"data"} ELSE {})
           \cup (IF hasMeta THEN {"meta"} ELSE {})
           \cup (IF hasNext THEN {"links"} ELSE {}) |->
        CASE k = "data" -> data
          [] k = "meta" -> meta
          [] k = "links" -> [next |-> "next-url"]]

\* fetch() threw: no response.
Thrown(e) ==
    [thrown |-> TRUE, error |-> e, status |-> 0, text |-> <<>>,
     json |-> FALSE, body |-> EmptyObject]

\* A response with a status other than 200 and a plain-text body.
ErrorResponse(s, t) ==
    [thrown |-> FALSE, error |-> NoError, status |-> s, text |-> t,
     json |-> FALSE, body |-> EmptyObject]

\* A 200 response; json is FALSE when the body is not valid JSON.
OkResponse(valid, b) ==
    [thrown |-> FALSE, error |-> NoError, status |-> 200, text |-> <<>>,
     json |-> valid, body |-> b]

TransportErrors ==
    { [name |-> "Exception", msg |-> <<"Request", "timeout">>],
      [name |-> "Exception", msg |-> <<"DNS", "error">>] }

ErrorBodies == { <<"server", "error">>, <<"gateway", "timeout">> }

\* The answers with a status other than 200: rate limited, a 2xx that is
\* not 200, and a server error with either body.
ErrorResponses ==
    {ErrorResponse(429, <<"rate", "limited">>), ErrorResponse(201, <<"created">>)}
    \cup {ErrorResponse(500, t) : t \in ErrorBodies}

\* Everything an arbitrary server or the transport can answer to a request
\* for page p.
ArbitraryResponses[p \in 1..(MaxRequests + 1)] ==
    {Thrown(e) : e \in TransportErrors}
    \cup ErrorResponses
    \cup {OkResponse(FALSE, EmptyObject)}
    \cup {OkResponse(TRUE, JsonBody(hd, PageData(p, n), hm, m, hn)) :
            hd \in BOOLEAN, n \in DataLens, hm \in BOOLEAN, m \in Metas,
            hn \in BOOLEAN}

\* The answers of a server that reports meta.last_page = k on each page (and
\* the requested page as meta.current_page).
PagedResponses[p \in 1..(MaxRequests + 1), k \in 1..(MaxPage + 1)] ==
    {OkResponse(TRUE, JsonBody(TRUE, PageData(p, n), TRUE,
                               [current_page |-> p, last_page |-> k], hn)) :
        n \in DataLens, hn \in BOOLEAN}

\* A failure of the transport or of the server.
IsFault(r) == r.thrown \/ r.status # 200 \/ ~r.json

\* Within a run the environment fails at most MaxFaults times, with a server
\* error or a transport timeout, and otherwise answers with the one page that
\* holds all the records of the resource.
RunResponses[p \in 1..(MaxRequests + 1)] ==
    {ErrorResponse(500, <<"server", "error">>),
     Thrown([name |-> "Exception", msg |-> <<"Request", "timeout">>])}
    \cup {OkResponse(TRUE, JsonBody(TRUE, PageData(p, n), FALSE, EmptyObject, FALSE)) :
            n \in 0..MaxData}

\* A server that rejects the credential and repeats it in the body.
EchoResponse == ErrorResponse(401, <<"Invalid", "token", "KEY">>)

\* What a connection test can be answered.
ProbeResponses[p \in 1..(MaxRequests + 1)] ==
    ArbitraryResponses[p] \cup {EchoResponse}

ServerResponses(p) ==
    IF serverLastPage > 0 THEN PagedResponses[p, serverLastPage]
    ELSE IF rpc = "idle" THEN ArbitraryResponses[p]
    ELSE IF rpc \in {"probe", "setup"} THEN ProbeResponses[p]
    ELSE {r \in RunResponses[p] : IsFault(r) => faults < MaxFaults}

\* The requests after which the model stops a fetch.
RequestBound == IF rpc = "idle" THEN MaxRequests ELSE MaxRunRequests

(***************************************************************************)
(* The fetch clients.                                                      *)
(***************************************************************************)
\* PaginationParams with the spread last: { limit: 100, page, ...params }.
PaginationParamsCallerWins(prm, p) ==
    [k \in DOMAIN prm \cup {"limit", "page"} |->
        IF k \in DOMAIN prm THEN prm[k]
        ELSE IF k = "limit" THEN PageLimit
        ELSE p]

\* { ...params, limit: 100, page: page }: the caller's limit and page lose.
PaginationParams(prm, p) ==
    [k \in DOMAIN prm \cup {"limit", "page"} |->
        IF k = "limit" THEN PageLimit
        ELSE IF k = "page" THEN p
        ELSE prm[k]]

\* The GET request of one loop iteration.
Request(ep, prm, p, key) ==
    [t |-> "req",
     url |-> <<API_BASE_URL, ep>>,
     query |-> PaginationParams(prm, p),
     authorization |-> <<"Bearer", key>>,
     accept |-> "application/json"]

\* Utilities.sleep(ms).
Sleep(ms) == [t |-> "sleep", ms |-> ms]

\* responseData.data && responseData.data.length > 0
HasData(body) == "data" \in DOMAIN body /\ Len(body.data) > 0

\* The answer as the log keeps it.
Answer(r) ==
    [t |-> "resp", thrown |-> r.thrown, error |-> r.error, status |-> r.status,
     text |-> r.text, json |-> r.json,
     len |-> IF r.json /\ "data" \in DOMAIN r.body THEN Len(r.body.data) ELSE 0]

\* HasMoreData with the page comparison off by one (<= for <).
HasMoreDataInclusive(body) ==
    IF "meta" \in DOMAIN body
    THEN /\ "current_page" \in DOMAIN body.meta
         /\ "last_page" \in DOMAIN body.meta
         /\ body.meta.current_page <= body.meta.last_page
    ELSE IF "links" \in DOMAIN body /\ "next" \in DOMAIN body.links
         THEN TRUE
         ELSE Len(body.data) = PageLimit

\* "Check if there are more pages".
HasMoreData(body) ==
    IF "meta" \in DOMAIN body
    THEN JsLess(body.meta, "current_page", "last_page")
    ELSE IF "links" \in DOMAIN body /\ "next" \in DOMAIN body.links
         THEN TRUE
         ELSE Len(body.data) = PageLimit

RateLimitError ==
    [name |-> "Error",
     msg |-> <<"Rate", "limit", "exceeded,", "max", "retries", "reached">>]

\* `API request failed with status ${responseCode}: ${response.getContentText()}`
ApiError(status, text) ==
    [name |-> "Error",
     msg |-> <<"API", "request", "failed", "with", "status", ToString(status)>>
             \o text]

\* JSON.parse of a body that is not JSON.
SyntaxError == [name |-> "SyntaxError", msg |-> <<"Unexpected", "token">>]

\* ShouldRetryRateLimit allowing one retry too many (<= for <).
ShouldRetryRateLimitInclusive(rc) == rc <= MaxRetries

\* if (retryCount < this.maxRetries) in the 429 branch.
ShouldRetryRateLimit(rc) == rc < MaxRetries

\* BackoffDelay growing linearly from zero instead of exponentially from one.
BackoffDelayLinear(rc) == rc * 1000

\* Math.pow(2, retryCount) * 1000
BackoffDelay(rc) == (2 ^ rc) * 1000

\* ShouldRetryTimeout allowing one retry too many (<= for <).
ShouldRetryTimeoutInclusive(rc, e) ==
    rc <= MaxRetries /\ Includes(ErrorToString(e), "timeout")

\* if (retryCount < this.maxRetries && error.toString().includes('timeout'))
ShouldRetryTimeout(rc, e) ==
    rc < MaxRetries /\ Includes(ErrorToString(e), "timeout")

\* Recurse with the new frame starting from the records collected so far.
RecurseKeepsData(fs, rc, site, slept) ==
    [fpc |-> "loop", page |-> 1, allData |-> allData, retryCount |-> rc + 1,
     frames |-> Append(fs, [retryCount |-> rc, site |-> site]),
     error |-> NoError, slept |-> slept]

\* return this.makeRequest(endpoint, params, retryCount + 1): the frame with
\* retry count rc is suspended at the call site `site` ("try": the call in
\* the 429 branch, inside the try block; "catch": the call in the catch
\* block) and a new frame starts with page 1 and an empty allData.
Recurse(fs, rc, site, slept) ==
    [fpc |-> "loop", page |-> 1, allData |-> <<>>, retryCount |-> rc + 1,
     frames |-> Append(fs, [retryCount |-> rc, site |-> site]),
     error |-> NoError, slept |-> slept]

\* Error e is raised inside the try block of the innermost frame of fs. That
\* frame's catch block either retries (a new call, made from the catch
\* block) or rethrows; a rethrown error leaves the frame and is raised at
\* the call site of the frame below: inside that frame's try block when the
\* call was the one of the 429 branch, outside of it when the call was made
\* from the catch block.
RECURSIVE Raise(_, _, _, _)
Raise(fs, e, pg, ad) ==
    IF fs = <<>>
    THEN [fpc |-> "threw", page |-> pg, allData |-> ad, retryCount |-> 0,
          frames |-> <<>>, error |-> e, slept |-> <<>>]
    ELSE LET top == fs[Len(fs)]
             rest == SubSeq(fs, 1, Len(fs) - 1)
         IN  IF top.site = "try" /\ ShouldRetryTimeout(top.retryCount, e)
             THEN Recurse(rest, top.retryCount, "catch", <<Sleep(TimeoutDelay)>>)
             ELSE Raise(rest, e, pg, ad)

\* Lines 439-461 of Setup.js and 104-126 of Code.js: the page is added and
\* the loop continues or ends.
TakePage(body, pg, ad, rc, fs) ==
    IF HasData(body)
    THEN LET more == HasMoreData(body)
         IN  [fpc |-> IF more THEN "loop" ELSE "returned",
              page |-> pg + 1, allData |-> ad \o body.data,
              retryCount |-> rc, frames |-> IF more THEN fs ELSE <<>>,
              error |-> NoError,
              slept |-> IF more THEN <<Sleep(PageDelay)>> ELSE <<>>]
    ELSE [fpc |-> "returned", page |-> pg, allData |-> ad, retryCount |-> rc,
          frames |-> <<>>, error |-> NoError, slept |-> <<>>]

\* ApiClient.makeRequest: what one loop iteration does with the answer r.
ApiClientIteration(r, pg, ad, rc, fs) ==
    LET inTry == Append(fs, [retryCount |-> rc, site |-> "try"])
    IN  IF r.thrown THEN Raise(inTry, r.error, pg, ad)
        ELSE IF r.status = 429
        THEN IF ShouldRetryRateLimit(rc)
             THEN Recurse(fs, rc, "try", <<Sleep(BackoffDelay(rc))>>)
             ELSE Raise(inTry, RateLimitError, pg, ad)
        ELSE IF r.status # 200
        THEN Raise(inTry, ApiError(r.status, r.text), pg, ad)
        ELSE IF ~r.json THEN Raise(inTry, SyntaxError, pg, ad)
        ELSE TakePage(r.body, pg, ad, rc, fs)

\* makeApiRequest of Code.js: every error is logged and rethrown.
MakeApiRequestIteration(r, pg, ad) ==
    IF r.thrown THEN Raise(<<>>, r.error, pg, ad)
    ELSE IF r.status # 200 THEN Raise(<<>>, ApiError(r.status, r.text), pg, ad)
    ELSE IF ~r.json THEN Raise(<<>>, SyntaxError, pg, ad)
    ELSE TakePage(r.body, pg, ad, 0, <<>>)

Requests(evs) == SelectSeq(evs, LAMBDA e : e.t = "req")

\* A call of the fetch: the locals of the first frame.
BeginFetch(c, key, ep, prm) ==
    /\ fpc' = "loop"
    /\ client' = c
    /\ apiKey' = key
    /\ endpoint' = ep
    /\ params' = prm
    /\ page' = 1
    /\ allData' = <<>>
    /\ retryCount' = 0
    /\ frames' = <<>>
    /\ fetchError' = NoError
    /\ events' = <<>>

\* One iteration of the while loop of ApiClient.makeRequest.
ApiClientStep ==
    /\ fpc = "loop"
    /\ client = "ApiClient"
    /\ Len(Requests(events)) < RequestBound
    /\ \E r \in ServerResponses(page) :
        LET o == ApiClientIteration(r, page, allData, retryCount, frames)
        IN  /\ fpc' = o.fpc
            /\ page' = o.page
            /\ allData' = o.allData
            /\ retryCount' = o.retryCount
            /\ frames' = o.frames
            /\ fetchError' = o.error
            /\ requestCount' = IF r.thrown THEN requestCount ELSE requestCount + 1
            /\ httpCount' = httpCount + 1
            /\ faults' = IF IsFault(r) THEN faults + 1 ELSE faults
            /\ events' = events
                    \o (IF requestCount > 0 THEN <<Sleep(InterRequestDelay)>> ELSE <<>>)
                    \o <<Request(endpoint, params, page, apiKey), Answer(r)>>
                    \o o.slept
    /\ UNCHANGED <<client, apiKey, endpoint, params, serverLastPage>>
    /\ UNCHANGED <<sheetVars, runVars, utilVars>>

\* One iteration of the while loop of makeApiRequest.
MakeApiRequestStep ==
    /\ fpc = "loop"
    /\ client = "makeApiRequest"
    /\ Len(Requests(events)) < RequestBound
    /\ \E r \in ServerResponses(page) :
        LET o == MakeApiRequestIteration(r, page, allData)
        IN  /\ fpc' = o.fpc
            /\ page' = o.page
            /\ allData' = o.allData
            /\ fetchError' = o.error
            /\ httpCount' = httpCount + 1
            /\ faults' = IF IsFault(r) THEN faults + 1 ELSE faults
            /\ events' = events
                    \o <<Request(endpoint, params, page, apiKey), Answer(r)>>
                    \o o.slept
    /\ UNCHANGED <<client, apiKey, endpoint, params, retryCount, frames,
                   requestCount, serverLastPage>>
    /\ UNCHANGED <<sheetVars, runVars, utilVars>>

(***************************************************************************)
(* A single fetch against every server: testApiConnectionSecure and        *)
(* testApiConnection call the fetch with { limit: 1 }, the pull functions  *)
(* with no params.                                                         *)
(***************************************************************************)
\* const CONFIG = { ..., ENDPOINTS: { ... } } of Code.js.
CONFIG_ENDPOINTS ==
    [AFFILIATES |-> "/affiliates", REFERRALS |-> "/referrals",
     COUPONS |-> "/coupons"]

\* CONFIG.ENDPOINTS.<key>; a missing key is undefined, and the URL built
\* from it ends in the text "undefined".
EndpointOf(key) ==
    IF key \in DOMAIN CONFIG_ENDPOINTS THEN CONFIG_ENDPOINTS[key] ELSE "undefined"

AFFILIATES == EndpointOf("AFFILIATES")

\* No fetch is running and no client exists.
FetchIdle ==
    /\ fpc = "idle"
    /\ client = "none"
    /\ apiKey = "KEY"
    /\ endpoint = AFFILIATES
    /\ params = EmptyObject
    /\ page = 1
    /\ allData = <<>>
    /\ retryCount = 0
    /\ frames = <<>>
    /\ requestCount = 0
    /\ fetchError = NoError
    /\ events = <<>>
    /\ httpCount = 0
    /\ faults = 0

NoCall == [fn |-> "none"]

\* No utility has been called, nothing is logged, no trigger exists.
UtilIdle ==
    /\ logs = <<>>
    /\ triggers = <<>>
    /\ call = NoCall

\* No run is in progress.
RunIdle ==
    /\ rpc = "idle"
    /\ variant = "none"
    /\ resIdx = 0
    /\ dataCounts = EmptyObject
    /\ runError = NoError
    /\ attempts = <<>>

\* The params of the callers: none (the pull functions), { limit: 1 } (the
\* connection tests), and a caller that passes both pagination parameters.
CallParams == {EmptyObject, [limit |-> 1], [limit |-> 1, page |-> 9]}

FetchInit ==
    /\ FetchIdle
    /\ serverLastPage \in 0..MaxPage
    /\ sheets = EmptyObject
    /\ written = <<>>
    /\ writers = <<>>
    /\ RunIdle
    /\ UtilIdle
    /\ storedKey = "KEY"
    /\ configKey = "KEY"

\* new ApiClient(CONFIG.API_BASE_URL, apiKey).makeRequest(endpoint, params)
CallMakeRequest ==
    /\ fpc = "idle"
    /\ \E prm \in CallParams : BeginFetch("ApiClient", apiKey, AFFILIATES, prm)
    /\ requestCount' = 0
    /\ UNCHANGED <<serverLastPage, httpCount, faults, sheetVars, runVars, utilVars>>

\* makeApiRequest(endpoint, params)
CallMakeApiRequest ==
    /\ fpc = "idle"
    /\ \E prm \in CallParams : BeginFetch("makeApiRequest", apiKey, AFFILIATES, prm)
    /\ UNCHANGED <<requestCount, serverLastPage, httpCount, faults, sheetVars,
                   runVars, utilVars>>

FetchNext ==
    \/ CallMakeRequest
    \/ CallMakeApiRequest
    \/ ApiClientStep
    \/ MakeApiRequestStep

SpecFetch == FetchInit /\ [][FetchNext]_vars

(***************************************************************************)
(* Reading the log of a fetch.                                             *)
(***************************************************************************)
Answers(evs) == SelectSeq(evs, LAMBDA e : e.t = "resp")

\* Position in evs of the k-th event of kind t.
PositionOf(evs, t, k) ==
    CHOOSE i \in 1..Len(evs) :
        /\ evs[i].t = t
        /\ Cardinality({j \in 1..i : evs[j].t = t}) = k

RECURSIVE SumLen(_)
SumLen(as) == IF as = <<>> THEN 0 ELSE as[1].len + SumLen(Tail(as))

IsTimeout(a) == a.thrown /\ Includes(ErrorToString(a.error), "timeout")

Is429(a) == ~a.thrown /\ a.status = 429

IsPage(a) == ~a.thrown /\ a.status = 200 /\ a.json

(***************************************************************************)
(* C3 (as stated): against a server that reports meta.last_page = K on     *)
(* each page, a fetch that returns has requested exactly the pages 1..K,   *)
(* in order, and returns as many records as those pages held.              *)
(***************************************************************************)
C3_ExactlyKRequests ==
    (serverLastPage > 0 /\ fpc = "returned") =>
        /\ Len(Requests(events)) = serverLastPage
        /\ \A i \in 1..Len(Requests(events)) : Requests(events)[i].query.page = i
        /\ Len(allData) = SumLen(Answers(events))

(***************************************************************************)
(* C3 (amended): against such a server the fetch requests the pages 1..n   *)
(* in order, each after the answer to the one before, where n = K when the *)
(* pages 1..K-1 all hold records and otherwise n is the first page without *)
(* records; it returns the records of those n pages.                       *)
(***************************************************************************)
C3_PagedFetch ==
    serverLastPage > 0 =>
        LET reqs == Requests(events)
            as == Answers(events)
            n == Len(reqs)
        IN  /\ Len(as) = n
            /\ \A i \in 1..n :
                /\ reqs[i].query.page = i
                /\ PositionOf(events, "resp", i) = PositionOf(events, "req", i) + 1
            /\ n <= serverLastPage
            /\ \A i \in 1..(n - 1) : as[i].len > 0
            /\ Len(allData) = SumLen(as)
            /\ fpc = "returned" <=>
                 (n > 0 /\ (n = serverLastPage \/ as[n].len = 0))
            /\ fpc # "threw"

C3_Witness ==
    /\ serverLastPage = 2
    /\ fpc = "returned"
    /\ Len(Requests(events)) = 2
    /\ Len(allData) = PageLimit + 1

(***************************************************************************)
(* C4: when ApiClient.makeRequest is answered 429 and retries, it sleeps   *)
(* at least 2^0 = 1 second right after the 429 and before the retry; when  *)
(* the retry is answered 200 the fetch has not thrown, and it returns the  *)
(* records of that answer when that page is the last.                      *)
(***************************************************************************)
C4_RetryAfter429 ==
    client = "ApiClient" =>
        \A k \in 1..(Len(Answers(events)) - 1) :
            LET as == Answers(events)
                i == PositionOf(events, "resp", k)
                j == PositionOf(events, "req", k + 1)
            IN  Is429(as[k]) =>
                  /\ i + 1 < j
                  /\ events[i + 1].t = "sleep"
                  /\ events[i + 1].ms >= 1000
                  /\ (IsPage(as[k + 1]) /\ k + 1 = Len(as)) =>
                        /\ fpc \in {"loop", "returned"}
                        /\ fetchError = NoError
                        /\ Len(allData) = as[k + 1].len

C4_Witness ==
    /\ client = "ApiClient"
    /\ fpc = "returned"
    /\ Len(Answers(events)) = 2
    /\ Is429(Answers(events)[1])
    /\ IsPage(Answers(events)[2])
    /\ Len(allData) = 1

(***************************************************************************)
(* C5 (as stated): when page N is answered 429 and retry budget remains,   *)
(* the next request is for the same page N, the records of the pages       *)
(* before N are kept, and the retry counter is incremented by one.         *)
(***************************************************************************)
C5_RetrySamePage ==
    [][(/\ client = "ApiClient"
        /\ fpc = "loop"
        /\ retryCount < MaxRetries
        /\ Len(Answers(events')) = Len(Answers(events)) + 1
        /\ Is429(Answers(events')[Len(Answers(events'))]))
       => (/\ fpc' = "loop"
           /\ page' = page
           /\ allData' = allData
           /\ retryCount' = retryCount + 1)]_vars

(***************************************************************************)
(* C6: when every request of an ApiClient.makeRequest call fails with a    *)
(* transport timeout, the call makes MaxRetries + 1 requests, sleeps 2     *)
(* seconds after each failure but the last, and throws the timeout error.  *)
(***************************************************************************)
C6_TimeoutRetries ==
    (/\ client = "ApiClient"
     /\ \A k \in 1..Len(Answers(events)) : IsTimeout(Answers(events)[k])) =>
        LET as == Answers(events)
            n == Len(as)
        IN  /\ n <= MaxRetries + 1
            /\ retryCount = IF fpc = "threw" THEN 0 ELSE n
            /\ fpc = "threw" <=> n = MaxRetries + 1
            /\ fpc = "threw" => fetchError = as[n].error
            /\ Cardinality({j \in 1..Len(events) : events[j] = Sleep(TimeoutDelay)})
                 = IF n <= MaxRetries THEN n ELSE MaxRetries
            /\ \A k \in 1..n :
                LET i == PositionOf(events, "resp", k)
                IN  IF k <= MaxRetries
                    THEN i < Len(events) /\ events[i + 1] = Sleep(TimeoutDelay)
                    ELSE i = Len(events)

C6_Witness ==
    /\ client = "ApiClient"
    /\ fpc = "threw"
    /\ Len(Answers(events)) = MaxRetries + 1
    /\ \A k \in 1..Len(Answers(events)) : IsTimeout(Answers(events)[k])
    /\ Includes(ErrorToString(fetchError), "timeout")

(***************************************************************************)
(* C7 (as stated): an answer whose status is neither 2xx nor 429 makes the *)
(* fetch fail at once with an error carrying the status and the raw body,  *)
(* and the fetch issues no further request, whatever the body text is.     *)
(***************************************************************************)
C7_NoRetryOnApiError ==
    \A k \in 1..Len(Answers(events)) :
        LET a == Answers(events)[k]
        IN  (~a.thrown /\ a.status \notin (200..299) /\ a.status # 429) =>
                /\ k = Len(Answers(events))
                /\ PositionOf(events, "resp", k) = Len(events)
                /\ fpc = "threw"
                /\ fetchError = ApiError(a.status, a.text)

(***************************************************************************)
(* The spreadsheet backend: a sheet is a grid of cells with formats.       *)
(* A blank cell and a cell holding '' are the same cell, so cells holds    *)
(* the non-blank cells only.                                               *)
(***************************************************************************)
BlankSheet ==
    [cells |-> EmptyObject, formats |-> EmptyObject, bandings |-> {},
     frozenRows |-> 0]

\* sheet.getRange(row, column, numRows, numColumns), as its set of cells.
Range(r0, c0, nr, nc) ==
    {<<r, c>> : r \in r0..(r0 + nr - 1), c \in c0..(c0 + nc - 1)}

\* sheet.clear(): content and formatting go; frozen rows stay.
SheetClear(sh) ==
    [sh EXCEPT !.cells = EmptyObject, !.formats = EmptyObject, !.bandings = {}]

\* range.setValues(values) throws unless values has the size of the range.
ValuesFit(vals, nr, nc) ==
    /\ nr > 0
    /\ nc > 0
    /\ Len(vals) = nr
    /\ \A i \in 1..Len(vals) : Len(vals[i]) = nc

\* sheet.getRange(r0, c0, nr, nc).setValues(vals)
SetValues(sh, r0, c0, nr, nc, vals) ==
    LET rng == Range(r0, c0, nr, nc)
        val(d) == vals[d[1] - r0 + 1][d[2] - c0 + 1]
    IN  [sh EXCEPT !.cells =
            [d \in ((DOMAIN sh.cells) \ rng) \cup {x \in rng : val(x) # ""} |->
                IF d \in rng THEN val(d) ELSE sh.cells[d]]]

\* range.setFontWeight / setBackground / setFontColor / setFontFamily ...
SetFormats(sh, rng, attrs) ==
    [sh EXCEPT !.formats =
        [d \in (DOMAIN sh.formats) \cup rng |->
            IF d \in rng
            THEN (IF d \in DOMAIN sh.formats THEN sh.formats[d] ELSE {}) \cup attrs
            ELSE sh.formats[d]]]

\* range.setBanding(LIGHT_GREY) and the four colour setters of the banding.
SetBanding(sh, r0, c0, nr, nc) ==
    [sh EXCEPT !.bandings = @ \cup
        {[range |-> <<r0, c0, nr, nc>>,
          headerRowColor |-> "#4285f4", headerRowFontColor |-> "#ffffff",
          firstRowColor |-> "#ffffff", secondRowColor |-> "#f8f9fa"]}]

\* The cells of a grid given as a sequence of rows.
GridCells(grid) ==
    [d \in {x \in UNION {{<<r, c>> : c \in 1..Len(grid[r])} : r \in 1..Len(grid)} :
                grid[x[1]][x[2]] # ""} |->
        grid[d[1]][d[2]]]

\* The steps of a write, in order; the backend call of any step can throw.
WriteSteps == <<"clear", "header", "rows", "banding", "resize", "freeze">>

FailPoints == {"none"} \cup {WriteSteps[i] : i \in 1..Len(WriteSteps)}

\* writeDataWithFormatting without the sheet.clear() call.
WriteDataWithFormattingNoClear(sh, headers, rows, failAt) ==
    LET w == Len(headers)
        s2 == SetFormats(SetValues(sh, 1, 1, 1, w, <<headers>>),
                         Range(1, 1, 1, w),
                         {"bold", "background #4285f4", "color #ffffff"})
        s3 == SetValues(s2, 2, 1, Len(rows), w, rows)
        s4 == IF Len(rows) > 0 THEN SetBanding(s3, 1, 1, Len(rows) + 1, w) ELSE s2
    IN  IF failAt = "header" \/ ~ValuesFit(<<headers>>, 1, w)
        THEN [sheet |-> sh, threw |-> TRUE]
        ELSE IF Len(rows) > 0 /\ (failAt = "rows" \/ ~ValuesFit(rows, Len(rows), w))
        THEN [sheet |-> s2, threw |-> TRUE]
        ELSE IF Len(rows) > 0 /\ failAt = "banding"
        THEN [sheet |-> s3, threw |-> TRUE]
        ELSE IF failAt \in {"resize", "freeze"}
        THEN [sheet |-> s4, threw |-> TRUE]
        ELSE [sheet |-> [s4 EXCEPT !.frozenRows = 1], threw |-> FALSE]

\* SheetManager.writeDataWithFormatting(sheet, headers, rows); failAt names
\* the step whose backend call throws, leaving the sheet as the steps before
\* it made it.
WriteDataWithFormatting(sh, headers, rows, failAt) ==
    LET w == Len(headers)
        s1 == SheetClear(sh)
        s2 == SetFormats(SetValues(s1, 1, 1, 1, w, <<headers>>),
                         Range(1, 1, 1, w),
                         {"bold", "background #4285f4", "color #ffffff"})
        s3 == SetValues(s2, 2, 1, Len(rows), w, rows)
        s4 == IF Len(rows) > 0 THEN SetBanding(s3, 1, 1, Len(rows) + 1, w) ELSE s2
    IN  IF failAt = "clear"
        THEN [sheet |-> sh, threw |-> TRUE]
        ELSE IF failAt = "header" \/ ~ValuesFit(<<headers>>, 1, w)
        THEN [sheet |-> s1, threw |-> TRUE]
        ELSE IF Len(rows) > 0 /\ (failAt = "rows" \/ ~ValuesFit(rows, Len(rows), w))
        THEN [sheet |-> s2, threw |-> TRUE]
        ELSE IF Len(rows) > 0 /\ failAt = "banding"
        THEN [sheet |-> s3, threw |-> TRUE]
        ELSE IF failAt \in {"resize", "freeze"}
        THEN [sheet |-> s4, threw |-> TRUE]
        ELSE [sheet |-> [s4 EXCEPT !.frozenRows = 1], threw |-> FALSE]

\* writeDataToSheet(sheet, headers, rows) of Code.js.
WriteDataToSheet(sh, headers, rows, failAt) ==
    LET w == Len(headers)
        s1 == SheetClear(sh)
        s2 == SetFormats(SetValues(s1, 1, 1, 1, w, <<headers>>),
                         Range(1, 1, 1, w), {"bold"})
        s3 == IF Len(rows) > 0 THEN SetValues(s2, 2, 1, Len(rows), w, rows) ELSE s2
    IN  IF failAt = "clear"
        THEN [sheet |-> sh, threw |-> TRUE]
        ELSE IF failAt = "header" \/ ~ValuesFit(<<headers>>, 1, w)
        THEN [sheet |-> s1, threw |-> TRUE]
        ELSE IF Len(rows) > 0 /\ (failAt = "rows" \/ ~ValuesFit(rows, Len(rows), w))
        THEN [sheet |-> s2, threw |-> TRUE]
        ELSE IF failAt = "resize"
        THEN [sheet |-> s3, threw |-> TRUE]
        ELSE [sheet |-> s3, threw |-> FALSE]

\* sheets with the sheet called name set to sh (inserted when missing).
PutSheet(shs, name, sh) ==
    [n \in (DOMAIN shs) \cup {name} |-> IF n = name THEN sh ELSE shs[n]]

\* spreadsheet.insertSheet(name) followed by SheetManager.formatSheet: the
\* data range of a blank sheet is the one cell A1.
InsertFormattedSheet ==
    SetFormats(BlankSheet, Range(1, 1, 1, 1), {"font Arial", "size 10"})

(***************************************************************************)
(* The writers alone, on every prior table content of the bounds: a sheet  *)
(* holding a filled rectangle of old cells, written once and then again    *)
(* with the same headers and rows.                                         *)
(***************************************************************************)
\* Widest header list and longest row list written.
MaxCols == 2
MaxRows == 2

HeaderNames == {"ID", "Email"}
CellValues == {"", "a"}

RECURSIVE SeqsOf(_, _)
\* The sequences of length n over S.
SeqsOf(S, n) ==
    IF n = 0 THEN {<<>>}
    ELSE {Append(q, x) : q \in SeqsOf(S, n - 1), x \in S}

SeqsUpTo(S, n) == UNION {SeqsOf(S, k) : k \in 0..n}

\* A sheet left by earlier use: an r x c rectangle of old values, formatted
\* and banded as an earlier write leaves it, or plain.
OldSheet(r, c, formatted) ==
    LET filled == SetValues(BlankSheet, 1, 1, r, c,
                            [i \in 1..r |-> [j \in 1..c |-> "old"]])
    IN  IF r = 0 \/ c = 0 THEN BlankSheet
        ELSE IF formatted
        THEN [SetBanding(SetFormats(filled, Range(1, 1, 1, c), {"bold", "italic"}),
                         1, 1, r, c)
                EXCEPT !.frozenRows = 2]
        ELSE filled

PriorSheets ==
    {OldSheet(r, c, f) : r \in 0..(MaxRows + 2), c \in 0..(MaxCols + 1),
                         f \in BOOLEAN}

TABLE == "Affiliates"

WriteInit ==
    /\ FetchIdle
    /\ serverLastPage = 0
    /\ \E sh \in PriorSheets : sheets = [n \in {TABLE} |-> sh]
    /\ written = <<>>
    /\ writers = <<>>
    /\ RunIdle
    /\ UtilIdle
    /\ storedKey = "KEY"
    /\ configKey = "KEY"

\* The backend calls that come after the values are in the sheet; a write
\* whose backend throws there has replaced the content all the same.
LateFailPoints == {"none", "banding"}

\* The first write: any headers and any rows of the headers' width.
FirstWrite(writer) ==
    /\ written = <<>>
    /\ \E headers \in SeqsUpTo(HeaderNames, MaxCols) \ {<<>>} :
       \E rows \in SeqsUpTo(SeqsOf(CellValues, Len(headers)), MaxRows) :
       \E failAt \in LateFailPoints :
          LET o == IF writer = "writeDataWithFormatting"
                   THEN WriteDataWithFormatting(sheets[TABLE], headers, rows, failAt)
                   ELSE WriteDataToSheet(sheets[TABLE], headers, rows, failAt)
          IN  /\ sheets' = PutSheet(sheets, TABLE, o.sheet)
              /\ written' = <<[writer |-> writer, headers |-> headers,
                               rows |-> rows, failAt |-> failAt,
                               threw |-> o.threw, before |-> sheets[TABLE],
                               after |-> o.sheet]>>
    /\ UNCHANGED <<writers, fetchVars, runVars, utilVars>>

\* The same write once more.
SecondWrite ==
    /\ Len(written) = 1
    /\ LET w == written[1]
           o == IF w.writer = "writeDataWithFormatting"
                THEN WriteDataWithFormatting(sheets[TABLE], w.headers, w.rows, w.failAt)
                ELSE WriteDataToSheet(sheets[TABLE], w.headers, w.rows, w.failAt)
       IN  /\ sheets' = PutSheet(sheets, TABLE, o.sheet)
           /\ written' = Append(written, [w EXCEPT !.before = sheets[TABLE],
                                                   !.after = o.sheet])
    /\ UNCHANGED <<writers, fetchVars, runVars, utilVars>>

WriteFormatted == FirstWrite("writeDataWithFormatting")

WritePlain == FirstWrite("writeDataToSheet")

WriteNext == WriteFormatted \/ WritePlain \/ SecondWrite

SpecWrite == WriteInit /\ [][WriteNext]_vars

(***************************************************************************)
(* C10: a write replaces the whole table: whatever the sheet held, after   *)
(* write(headers, rows) its cells are exactly the header row followed by   *)
(* the rows, and the same write made again leaves the sheet as the first   *)
(* write left it.                                                          *)
(***************************************************************************)
C10_WriteReplacesAndIsIdempotent ==
    /\ \A i \in 1..Len(written) :
         written[i].after.cells
            = GridCells(<<written[i].headers>> \o written[i].rows)
    /\ Len(written) >= 1 => sheets[TABLE] = written[Len(written)].after
    /\ Len(written) = 2 => written[2].after = written[1].after

C10_Witness ==
    /\ Len(written) = 2
    /\ written[1].writer = "writeDataWithFormatting"
    /\ Len(written[1].rows) = 1
    /\ Len(written[1].headers) = 1
    /\ ~written[1].threw
    /\ written[1].after.bandings # {}
    /\ <<MaxRows + 2, MaxCols + 1>> \in DOMAIN written[1].before.cells
    /\ written[1].before.bandings # {}

(***************************************************************************)
(* The row projections. A column is the header, the field of the raw       *)
(* record it shows and the way the code turns the field into the cell:     *)
(*   or_empty  x || ''            or_zero   x || 0                         *)
(*   sanitize  DataFormatter.sanitizeString(x) || ''                       *)
(*   currency  DataFormatter.formatCurrency(x) || ''                       *)
(*   date      DataFormatter.formatDate(x) || ''                           *)
(*   is_active / is_verified   x === 1 ? ... : 'Inactive' / 'Not Verified' *)
(*   nested_email / nested_name   referral.affiliate ? ... : ''            *)
(*   timestamp x ? new Date(x * 1000).toLocaleString() : ''                *)
(***************************************************************************)
Col(h, f, k) == [header |-> h, field |-> f, kind |-> k]

\* headers and rows of pullAffiliatesDataEnhanced.
EnhancedAffiliatesColumns ==
    <<Col("ID", "id", "or_empty"),
      Col("Email", "email", "sanitize"),
      Col("Name", "name", "sanitize"),
      Col("Status", "status", "or_empty"),
      Col("Commission Rate (%)", "commission_rate", "or_empty"),
      Col("Total Referrals", "total_referrals", "or_zero"),
      Col("Total Earnings", "total_earnings", "currency"),
      Col("Created Date", "created_at", "date"),
      Col("Last Updated", "updated_at", "date")>>

\* headers and rows of pullReferralsDataEnhanced.
EnhancedReferralsColumns ==
    <<Col("ID", "id", "or_empty"),
      Col("Affiliate ID", "affiliate_id", "or_empty"),
      Col("Customer Email", "customer_email", "sanitize"),
      Col("Order Value", "order_value", "currency"),
      Col("Commission Amount", "commission", "currency"),
      Col("Commission Rate (%)", "commission_rate", "or_empty"),
      Col("Status", "status", "or_empty"),
      Col("Order Date", "order_date", "date"),
      Col("Created Date", "created_at", "date")>>

\* headers and rows of pullCouponsDataEnhanced.
EnhancedCouponsColumns ==
    <<Col("ID", "id", "or_empty"),
      Col("Code", "code", "sanitize"),
      Col("Affiliate ID", "affiliate_id", "or_empty"),
      Col("Discount Type", "discount_type", "or_empty"),
      Col("Discount Value", "discount_value", "or_empty"),
      Col("Usage Count", "usage_count", "or_zero"),
      Col("Usage Limit", "usage_limit", "or_empty"),
      Col("Status", "status", "or_empty"),
      Col("Expiry Date", "expiry_date", "date"),
      Col("Created Date", "created_at", "date")>>

\* headers and rows of pullPaymentsDataEnhanced.
EnhancedPaymentsColumns ==
    <<Col("ID", "id", "or_empty"),
      Col("Affiliate ID", "affiliate_id", "or_empty"),
      Col("Amount", "amount", "currency"),
      Col("Currency", "currency", "or_empty"),
      Col("Status", "status", "or_empty"),
      Col("Payment Method", "payment_method", "or_empty"),
      Col("Transaction ID", "transaction_id", "or_empty"),
      Col("Processing Date", "processing_date", "date"),
      Col("Created Date", "created_at", "date")>>

\* headers and rows of pullAffiliatesData.
BasicAffiliatesColumns ==
    <<Col("ID", "id", "or_empty"),
      Col("Email", "email", "or_empty"),
      Col("First Name", "first_name", "or_empty"),
      Col("Last Name", "last_name", "or_empty"),
      Col("Status", "status", "is_active"),
      Col("Email Verified", "email_verified", "is_verified"),
      Col("Company", "company", "or_empty"),
      Col("Address", "address", "or_empty"),
      Col("Country", "country", "or_empty"),
      Col("City", "city", "or_empty"),
      Col("State", "state", "or_empty"),
      Col("Zipcode", "zipcode", "or_empty"),
      Col("Phone", "phone", "or_empty"),
      Col("Facebook", "facebook", "or_empty"),
      Col("YouTube", "youtube", "or_empty"),
      Col("Instagram", "instagram", "or_empty"),
      Col("Twitter", "twitter", "or_empty"),
      Col("Affiliate Link", "affiliate_link", "or_empty"),
      Col("Program ID", "program_id", "or_empty"),
      Col("Program Name", "program_name", "or_empty"),
      Col("Created At", "created_at_timestamp", "timestamp")>>

\* headers and rows of pullReferralsData.
BasicReferralsColumns ==
    <<Col("ID", "id", "or_empty"),
      Col("Order ID", "order_id", "or_empty"),
      Col("Order Number", "order_number", "or_empty"),
      Col("Affiliate ID", "affiliate_id", "or_empty"),
      Col("Customer ID", "customer_id", "or_empty"),
      Col("Quantity", "quantity", "or_empty"),
      Col("Total Sales", "total_sales", "or_empty"),
      Col("Commission", "commission", "or_empty"),
      Col("Commission Adjustment", "commission_adjustment", "or_empty"),
      Col("Status", "status", "or_empty"),
      Col("Commission Type", "commission_type", "or_empty"),
      Col("Commission Amount", "commission_amount", "or_empty"),
      Col("Refund ID", "refund_id", "or_empty"),
      Col("Tracking Type", "tracking_type", "or_empty"),
      Col("Affiliate Email", "affiliate", "nested_email"),
      Col("Affiliate Name", "affiliate", "nested_name"),
      Col("Created At", "created_at", "timestamp")>>

\* headers and rows of pullCouponsData.
BasicCouponsColumns ==
    <<Col("ID", "id", "or_empty"),
      Col("Affiliate ID", "affiliate_id", "or_empty"),
      Col("Coupon Code", "coupon", "or_empty"),
      Col("Description", "description", "or_empty"),
      Col("Created At", "created_timestamp", "timestamp")>>

Columns(v, res) ==
    IF v = "enhanced"
    THEN CASE res = "affiliates" -> EnhancedAffiliatesColumns
           [] res = "referrals" -> EnhancedReferralsColumns
           [] res = "coupons" -> EnhancedCouponsColumns
           [] res = "payments" -> EnhancedPaymentsColumns
    ELSE CASE res = "affiliates" -> BasicAffiliatesColumns
           [] res = "referrals" -> BasicReferralsColumns
           [] res = "coupons" -> BasicCouponsColumns

\* const headers = [...] of each pull function.
EnhancedAffiliatesHeaders ==
    <<"ID", "Email", "Name", "Status", "Commission Rate (%)",
      "Total Referrals", "Total Earnings", "Created Date", "Last Updated">>

EnhancedReferralsHeaders ==
    <<"ID", "Affiliate ID", "Customer Email", "Order Value",
      "Commission Amount", "Commission Rate (%)", "Status", "Order Date",
      "Created Date">>

EnhancedCouponsHeaders ==
    <<"ID", "Code", "Affiliate ID", "Discount Type", "Discount Value",
      "Usage Count", "Usage Limit", "Status", "Expiry Date", "Created Date">>

EnhancedPaymentsHeaders ==
    <<"ID", "Affiliate ID", "Amount", "Currency", "Status",
      "Payment Method", "Transaction ID", "Processing Date", "Created Date">>

BasicAffiliatesHeaders ==
    <<"ID", "Email", "First Name", "Last Name", "Status", "Email Verified",
      "Company", "Address", "Country", "City", "State", "Zipcode", "Phone",
      "Facebook", "YouTube", "Instagram", "Twitter", "Affiliate Link",
      "Program ID", "Program Name", "Created At">>

BasicReferralsHeaders ==
    <<"ID", "Order ID", "Order Number", "Affiliate ID", "Customer ID",
      "Quantity", "Total Sales", "Commission", "Commission Adjustment",
      "Status", "Commission Type", "Commission Amount", "Refund ID",
      "Tracking Type", "Affiliate Email", "Affiliate Name", "Created At">>

BasicCouponsHeaders ==
    <<"ID", "Affiliate ID", "Coupon Code", "Description", "Created At">>

\* The headers array of the pull function of res.
Headers(v, res) ==
    IF v = "enhanced"
    THEN CASE res = "affiliates" -> EnhancedAffiliatesHeaders
           [] res = "referrals" -> EnhancedReferralsHeaders
           [] res = "coupons" -> EnhancedCouponsHeaders
           [] res = "payments" -> EnhancedPaymentsHeaders
    ELSE CASE res = "affiliates" -> BasicAffiliatesHeaders
           [] res = "referrals" -> BasicReferralsHeaders
           [] res = "coupons" -> BasicCouponsHeaders

\* The cell of a column whose field is absent from the record (undefined).
AbsentCell(kind) ==
    CASE kind = "or_zero" -> "0"
      [] kind = "is_active" -> "Inactive"
      [] kind = "is_verified" -> "Not Verified"
      [] OTHER -> ""

\* The cell of a column for a record; the fields of the model's records are
\* numbers. A formatted value is some text fixed by the format and the value.
Cell(col, rec) ==
    IF col.field \notin DOMAIN rec THEN AbsentCell(col.kind)
    ELSE LET x == rec[col.field]
         IN  CASE col.kind = "or_empty" -> IF x = 0 THEN "" ELSE ToString(x)
               [] col.kind = "or_zero" -> ToString(x)
               [] col.kind = "is_active" -> IF x = 1 THEN "Active" ELSE "Inactive"
               [] col.kind = "is_verified" ->
                      IF x = 1 THEN "Verified" ELSE "Not Verified"
               [] OTHER -> IF x = 0 THEN "" ELSE ToString(<<col.kind, x>>)

\* A row mapping that leaves out the cells of the fields a record lacks.
ProjectRowsDropAbsent(v, res, data) ==
    [i \in 1..Len(data) |->
        LET present == SelectSeq(Columns(v, res),
                                 LAMBDA col : col.field \in DOMAIN data[i])
        IN  [j \in 1..Len(present) |-> Cell(present[j], data[i])]]

\* data.data.map(record => [ ... ])
ProjectRows(v, res, data) ==
    [i \in 1..Len(data) |->
        [j \in 1..Len(Columns(v, res)) |-> Cell(Columns(v, res)[j], data[i])]]

(***************************************************************************)
(* The orchestrators.                                                      *)
(***************************************************************************)
\* getProperty of a property that is not set.
Null == "null"

\* Falsy testing for the empty string only (=== '' for !).
FalsyEmptyOnly(v) == v = ""

\* The value of a property that an object does not have.
Undefined == "undefined"

\* !value for the strings, null and undefined.
Falsy(v) == v \in {"", Null, Undefined}

\* obj[k] of JavaScript: undefined when obj has no property k.
Get(obj, k) == IF k \in DOMAIN obj THEN obj[k] ELSE Undefined

\* EnhancedResources with the first two pull functions called in the other
\* order.
EnhancedResourcesSwapped == <<"referrals", "affiliates", "coupons", "payments">>

\* The pull functions pullUpPromoteDataEnhanced calls, in the order of the
\* calls.
EnhancedResources == <<"affiliates", "referrals", "coupons", "payments">>

BasicResources == <<"affiliates", "referrals", "coupons">>

ResourcesOf(v) == IF v = "enhanced" THEN EnhancedResources ELSE BasicResources

\* The key of CONFIG.ENDPOINTS a pull function reads.
EndpointKey(res) ==
    CASE res = "affiliates" -> "AFFILIATES"
      [] res = "referrals" -> "REFERRALS"
      [] res = "coupons" -> "COUPONS"
      [] res = "payments" -> "PAYMENTS"

SheetName(res) ==
    CASE res = "affiliates" -> "Affiliates"
      [] res = "referrals" -> "Referrals"
      [] res = "coupons" -> "Coupons"
      [] res = "payments" -> "Payments"

\* validateConfig stopping at the first missing field.
ConfigErrorsFirstOnly(config) ==
    IF Falsy(Get(config, "API_KEY")) THEN <<"API_KEY is required">>
    ELSE IF Falsy(Get(config, "API_BASE_URL")) THEN <<"API_BASE_URL is required">>
    ELSE IF "ENDPOINTS" \notin DOMAIN config \/ DOMAIN config.ENDPOINTS = {}
    THEN <<"ENDPOINTS configuration is required">>
    ELSE <<>>

\* ConfigValidator.validateConfig: the errors it collects. ENDPOINTS, when
\* config has it, is an object.
ConfigErrors(config) ==
    (IF Falsy(Get(config, "API_KEY")) THEN <<"API_KEY is required">> ELSE <<>>)
    \o (IF Falsy(Get(config, "API_BASE_URL"))
        THEN <<"API_BASE_URL is required">> ELSE <<>>)
    \o (IF "ENDPOINTS" \notin DOMAIN config \/ DOMAIN config.ENDPOINTS = {}
        THEN <<"ENDPOINTS configuration is required">> ELSE <<>>)

KeyNotFoundError ==
    [name |-> "Error",
     msg |-> <<"API", "key", "not", "found.", "Please", "run", "setupScript()",
               "first.">>]

KeyNotConfiguredError ==
    [name |-> "Error", msg |-> <<"API", "key", "not", "configured.">>]

ConfigError(errors) ==
    [name |-> "Error", msg |-> <<"Configuration", "validation", "failed:">> \o errors]

\* An exception of the spreadsheet backend.
BackendError == [name |-> "Exception", msg |-> <<"Service", "error:", "Spreadsheets">>]

\* SheetManager.getOrCreateSheet(sheetName)
GetOrCreateFormattedSheet(shs, name) ==
    IF name \in DOMAIN shs THEN shs ELSE PutSheet(shs, name, InsertFormattedSheet)

\* getOrCreateSheet(spreadsheet, sheetName) of Code.js
GetOrCreateSheet(shs, name) ==
    IF name \in DOMAIN shs THEN shs ELSE PutSheet(shs, name, BlankSheet)

\* PullRest returning the number of rows although the write threw (the
\* count taken before the write instead of after it).
PullRestCountsUnwritten(v, shs, res, state, data, failAt) ==
    LET name == SheetName(res)
        shs1 == IF v = "enhanced" THEN GetOrCreateFormattedSheet(shs, name)
                ELSE GetOrCreateSheet(shs, name)
        rows == ProjectRows(v, res, data)
        o == IF v = "enhanced"
             THEN WriteDataWithFormatting(shs1[name], Headers(v, res), rows, failAt)
             ELSE WriteDataToSheet(shs1[name], Headers(v, res), rows, failAt)
    IN  IF state = "threw"
        THEN [sheets |-> shs, count |-> 0, outcome |-> "fetch threw"]
        ELSE IF failAt = "insert" /\ name \notin DOMAIN shs
        THEN [sheets |-> shs, count |-> 0, outcome |-> "write threw"]
        ELSE IF Len(data) > 0
        THEN [sheets |-> PutSheet(shs1, name, o.sheet),
              count |-> Len(rows),
              outcome |-> IF o.threw THEN "write threw" ELSE "written"]
        ELSE [sheets |-> shs1, count |-> 0, outcome |-> "no data"]

\* What a pull function does once the fetch has ended (state "returned" with
\* data, or "threw"): the sheets it leaves, the count it returns and what
\* happened. failAt names the backend call that throws ("insert": the
\* insertSheet of getOrCreateSheet).
PullRest(v, shs, res, state, data, failAt) ==
    LET name == SheetName(res)
        shs1 == IF v = "enhanced" THEN GetOrCreateFormattedSheet(shs, name)
                ELSE GetOrCreateSheet(shs, name)
        rows == ProjectRows(v, res, data)
        o == IF v = "enhanced"
             THEN WriteDataWithFormatting(shs1[name], Headers(v, res), rows, failAt)
             ELSE WriteDataToSheet(shs1[name], Headers(v, res), rows, failAt)
    IN  IF state = "threw"
        THEN [sheets |-> shs, count |-> 0, outcome |-> "fetch threw"]
        ELSE IF failAt = "insert" /\ name \notin DOMAIN shs
        THEN [sheets |-> shs, count |-> 0, outcome |-> "write threw"]
        ELSE IF Len(data) > 0
        THEN [sheets |-> PutSheet(shs1, name, o.sheet),
              count |-> IF o.threw THEN 0 ELSE Len(rows),
              outcome |-> IF o.threw THEN "write threw" ELSE "written"]
        ELSE [sheets |-> shs1, count |-> 0, outcome |-> "no data"]

\* data.<key> || 0, as the cell shows it.
CountCell(data, key) ==
    IF key \in DOMAIN data /\ data[key] # 0 THEN ToString(data[key]) ELSE "0"

\* The rows SheetManager.addSummarySheet writes.
SummaryData(data) ==
    << <<"UpPromote Data Summary", "">>,
       <<"Last Updated", "now">>,
       <<"", "">>,
       <<"Data Type", "Count">>,
       <<"Affiliates", CountCell(data, "affiliates")>>,
       <<"Referrals", CountCell(data, "referrals")>>,
       <<"Coupons", CountCell(data, "coupons")>> >>

\* SheetManager.addSummarySheet(data)
AddSummarySheet(shs, data, failAt) ==
    LET shs1 == GetOrCreateFormattedSheet(shs, "Summary")
        s1 == SheetClear(shs1["Summary"])
        s2 == SetValues(s1, 1, 1, Len(SummaryData(data)), 2, SummaryData(data))
        s3 == SetFormats(SetFormats(s2, Range(1, 1, 1, 1), {"size 14", "bold"}),
                         Range(4, 1, 1, 2), {"bold", "background #e8f0fe"})
    IN  IF failAt = "insert" /\ "Summary" \notin DOMAIN shs
        THEN [sheets |-> shs, threw |-> TRUE]
        ELSE IF failAt = "clear"
        THEN [sheets |-> shs1, threw |-> TRUE]
        ELSE IF failAt = "header"
        THEN [sheets |-> PutSheet(shs1, "Summary", s1), threw |-> TRUE]
        ELSE IF failAt = "resize"
        THEN [sheets |-> PutSheet(shs1, "Summary", s3), threw |-> TRUE]
        ELSE [sheets |-> PutSheet(shs1, "Summary", s3), threw |-> FALSE]

\* dataCounts.<res> = count
SetCount(data, res, n) ==
    [k \in (DOMAIN data) \cup {res} |-> IF k = res THEN n ELSE data[k]]

\* The run throws e before it has touched anything.
FailFast(e) ==
    /\ rpc' = "threw"
    /\ runError' = e
    /\ UNCHANGED <<resIdx, dataCounts, attempts, fetchVars, sheetVars>>

\* pullUpPromoteDataEnhanced, from its call to the first HTTP request: the
\* key is read, the configuration validated, the client made and
\* pullAffiliatesDataEnhanced calls apiClient.makeRequest.
StartEnhanced ==
    /\ rpc = "idle"
    /\ variant' = "enhanced"
    /\ LET config == [API_KEY |-> storedKey, API_BASE_URL |-> API_BASE_URL,
                      ENDPOINTS |-> CONFIG_ENDPOINTS]
       IN  IF Falsy(storedKey) THEN FailFast(KeyNotFoundError)
           ELSE IF ConfigErrors(config) # <<>>
           THEN FailFast(ConfigError(ConfigErrors(config)))
           ELSE /\ rpc' = "running"
                /\ resIdx' = 1
                /\ dataCounts' = EmptyObject
                /\ requestCount' = 0
                /\ BeginFetch("ApiClient", storedKey,
                              EndpointOf(EndpointKey(EnhancedResources[1])),
                              EmptyObject)
                /\ UNCHANGED <<runError, attempts, serverLastPage, httpCount,
                               faults, sheetVars>>
    /\ UNCHANGED <<storedKey, configKey, utilVars>>

\* pullUpPromoteData, from its call to the first HTTP request.
StartBasic ==
    /\ rpc = "idle"
    /\ variant' = "basic"
    /\ IF Falsy(configKey) THEN FailFast(KeyNotConfiguredError)
       ELSE /\ rpc' = "running"
            /\ resIdx' = 1
            /\ BeginFetch("makeApiRequest", configKey,
                          EndpointOf(EndpointKey(BasicResources[1])), EmptyObject)
            /\ UNCHANGED <<dataCounts, runError, attempts, requestCount,
                           serverLastPage, httpCount, faults, sheetVars>>
    /\ UNCHANGED <<storedKey, configKey, utilVars>>

\* The backend calls that can be made to throw.
BackendFailPoints == FailPoints \cup {"insert"}

\* The fetch of a resource has ended: the pull function finishes and the
\* run goes on to the first HTTP request of the next resource; after the
\* last resource pullUpPromoteDataEnhanced writes the Summary sheet and
\* returns (or throws what addSummarySheet threw), pullUpPromoteData returns.
PullReturns ==
    /\ rpc = "running"
    /\ fpc \in {"returned", "threw"}
    /\ \E failAt \in BackendFailPoints, sumFailAt \in {"none", "insert", "clear", "header", "resize"} :
        LET res == ResourcesOf(variant)[resIdx]
            o == PullRest(variant, sheets, res, fpc, allData, failAt)
            counts == IF variant = "enhanced" THEN SetCount(dataCounts, res, o.count)
                      ELSE dataCounts
            last == resIdx = Len(ResourcesOf(variant))
            sum == AddSummarySheet(o.sheets, counts, sumFailAt)
            summarised == last /\ variant = "enhanced"
            failed == (IF failAt # "none" THEN 1 ELSE 0)
                      + (IF sumFailAt # "none" THEN 1 ELSE 0)
        IN  /\ failAt # "none" => o.outcome = "write threw"
            /\ sumFailAt # "none" => summarised /\ sum.threw
            /\ faults + failed <= MaxFaults
            /\ faults' = faults + failed
            /\ dataCounts' = counts
            /\ attempts' = Append(attempts,
                    [res |-> res, outcome |-> o.outcome, records |-> Len(allData),
                     count |-> o.count])
            /\ sheets' = IF summarised THEN sum.sheets ELSE o.sheets
            /\ IF last
               THEN /\ rpc' = IF summarised /\ sum.threw THEN "threw" ELSE "done"
                    /\ runError' = IF summarised /\ sum.threw THEN BackendError
                                   ELSE runError
                    /\ UNCHANGED <<resIdx, fpc, client, apiKey, endpoint, params,
                                   page, allData, retryCount, frames, fetchError,
                                   events>>
               ELSE /\ resIdx' = resIdx + 1
                    /\ BeginFetch(client, apiKey,
                                  EndpointOf(EndpointKey(ResourcesOf(variant)[resIdx + 1])),
                                  EmptyObject)
                    /\ UNCHANGED <<rpc, runError>>
    /\ UNCHANGED <<variant, storedKey, configKey, requestCount, serverLastPage,
                   httpCount, written, writers, utilVars>>

\* An earlier run's record.
OldRecord == [id |-> 999]

\* The sheets an earlier enhanced run left behind.
EarlierSheets ==
    [n \in {"Affiliates", "Referrals", "Coupons", "Payments", "Summary"} |->
        IF n = "Summary"
        THEN AddSummarySheet(EmptyObject,
                             [k \in {"affiliates", "referrals", "coupons", "payments"}
                                 |-> 1], "none").sheets["Summary"]
        ELSE LET res == CHOOSE r \in {"affiliates", "referrals", "coupons", "payments"} :
                            SheetName(r) = n
             IN  WriteDataWithFormatting(InsertFormattedSheet,
                                         Headers("enhanced", res),
                                         ProjectRows("enhanced", res, <<OldRecord>>),
                                         "none").sheet]

\* A run on a new spreadsheet or on the sheets of an earlier run, with or
\* without a credential.
RunInit ==
    /\ FetchIdle
    /\ serverLastPage = 0
    /\ sheets \in {EmptyObject, EarlierSheets}
    /\ written = <<>>
    /\ writers = <<>>
    /\ RunIdle
    /\ UtilIdle
    /\ \E keys \in {<<Null, "">>, <<"KEY", "KEY">>} :
          storedKey = keys[1] /\ configKey = keys[2]

RunNext ==
    \/ StartEnhanced
    \/ StartBasic
    \/ ApiClientStep
    \/ MakeApiRequestStep
    \/ PullReturns

SpecRun == RunInit /\ [][RunNext]_vars

(***************************************************************************)
(* C1: a resource whose fetch or sheet write fails does not stop the run:  *)
(* the run does not throw because of it, every later resource is still     *)
(* attempted, the failed resource counts 0, a written resource keeps the   *)
(* number of its rows as its count, and the Summary sheet shows them.      *)
(***************************************************************************)
C1_FailureIsolated ==
    LET rs == ResourcesOf(variant)
        failed(a) == a.outcome \in {"fetch threw", "write threw"}
    IN  /\ \A i \in 1..Len(attempts) : attempts[i].res = rs[i]
        /\ rpc = "running" =>
              /\ Len(attempts) = resIdx - 1
              /\ fpc \in {"loop", "returned", "threw"}
              /\ endpoint = EndpointOf(EndpointKey(rs[resIdx]))
        /\ rpc = "done" => Len(attempts) = Len(rs)
        /\ rpc = "threw" =>
              \/ attempts = <<>> /\ runError \in {KeyNotFoundError, KeyNotConfiguredError}
              \/ /\ variant = "enhanced"
                 /\ Len(attempts) = Len(rs)
                 /\ runError = BackendError
        /\ variant = "enhanced" =>
              /\ \A i \in 1..Len(attempts) :
                    /\ attempts[i].res \in DOMAIN dataCounts
                    /\ failed(attempts[i]) => dataCounts[attempts[i].res] = 0
                    /\ attempts[i].outcome = "written" =>
                          /\ dataCounts[attempts[i].res] = attempts[i].records
                          /\ attempts[i].records > 0
              /\ rpc = "done" =>
                    /\ "Summary" \in DOMAIN sheets
                    /\ sheets["Summary"].cells = GridCells(SummaryData(dataCounts))
                    /\ \A i \in 1..3 :
                          sheets["Summary"].cells[<<4 + i, 2>>]
                              = ToString(dataCounts[rs[i]])

C1_Witness ==
    /\ rpc = "done"
    /\ variant = "enhanced"
    /\ attempts[1].outcome = "written"
    /\ attempts[2].outcome = "written"
    /\ attempts[3].outcome = "fetch threw"
    /\ dataCounts["affiliates"] > 0
    /\ dataCounts["referrals"] > 0
    /\ dataCounts["coupons"] = 0
    /\ sheets["Summary"].cells[<<7, 1>>] = "Coupons"
    /\ sheets["Summary"].cells[<<7, 2>>] = "0"

(***************************************************************************)
(* C2: with no credential (no stored key for pullUpPromoteDataEnhanced, an *)
(* empty CONFIG.API_KEY for pullUpPromoteData) the run throws before any   *)
(* HTTP request is issued and before any sheet is created, cleared or      *)
(* written.                                                                *)
(***************************************************************************)
C2_NoCredentialFailsFast ==
    (\/ variant = "enhanced" /\ storedKey \in {Null, ""}
     \/ variant = "basic" /\ configKey \in {Null, ""}) =>
        /\ rpc = "threw"
        /\ runError = IF variant = "enhanced" THEN KeyNotFoundError
                      ELSE KeyNotConfiguredError
        /\ httpCount = 0
        /\ events = <<>>
        /\ fpc = "idle"
        /\ attempts = <<>>
        /\ sheets \in {EmptyObject, EarlierSheets}

C2_Witness ==
    /\ rpc = "threw"
    /\ variant = "enhanced"
    /\ storedKey = Null
    /\ httpCount = 0
    /\ sheets = EarlierSheets

(***************************************************************************)
(* C8 (as stated): when the fetch of a resource returns zero records, the  *)
(* resource's sheet exists afterwards and holds exactly the header row.    *)
(***************************************************************************)
C8_EmptyFetchWritesHeader ==
    \A i \in 1..Len(attempts) :
        attempts[i].outcome = "no data" =>
            /\ SheetName(attempts[i].res) \in DOMAIN sheets
            /\ sheets[SheetName(attempts[i].res)].cells
                  = GridCells(<<Headers(variant, attempts[i].res)>>)

\* The sheet holds a data row of an earlier run.
HoldsOldRows(sh) ==
    \E d \in DOMAIN sh.cells : d[1] >= 2 /\ sh.cells[d] = ToString(OldRecord.id)

(***************************************************************************)
(* C9 (as stated): after a run that completes, no resource sheet holds     *)
(* rows written by an earlier run, also for the resources whose fetch      *)
(* failed or returned no records.                                          *)
(***************************************************************************)
C9_NoStaleRows ==
    rpc = "done" =>
        \A i \in 1..Len(ResourcesOf(variant)) :
            LET name == SheetName(ResourcesOf(variant)[i])
            IN  name \in DOMAIN sheets => ~HoldsOldRows(sheets[name])

(***************************************************************************)
(* C11 (as stated): the Summary sheet written at the end of a run of       *)
(* pullUpPromoteDataEnhanced holds the title row, the last-updated row, a  *)
(* blank row, the header row and then one row for every resource of        *)
(* dataCounts (affiliates, referrals, coupons, payments) with its count.   *)
(***************************************************************************)
C11_SummaryRowPerResource ==
    (rpc = "done" /\ variant = "enhanced") =>
        LET cells == sheets["Summary"].cells
            filled(d) == d \in DOMAIN cells
        IN  /\ filled(<<1, 1>>) /\ cells[<<1, 1>>] = "UpPromote Data Summary"
            /\ filled(<<2, 1>>) /\ cells[<<2, 1>>] = "Last Updated"
            /\ ~filled(<<3, 1>>) /\ ~filled(<<3, 2>>)
            /\ filled(<<4, 1>>) /\ cells[<<4, 1>>] = "Data Type"
            /\ filled(<<4, 2>>) /\ cells[<<4, 2>>] = "Count"
            /\ \A res \in DOMAIN dataCounts :
                  \E r \in 5..(4 + Cardinality(DOMAIN dataCounts)) :
                      /\ filled(<<r, 1>>) /\ cells[<<r, 1>>] = SheetName(res)
                      /\ filled(<<r, 2>>) /\ cells[<<r, 2>>] = ToString(dataCounts[res])

(***************************************************************************)
(* The utilities of Setup.js, each called on inputs drawn from small sets. *)
(***************************************************************************)
\* The configurations: each of API_KEY and API_BASE_URL absent, null, empty
\* or set; ENDPOINTS absent, empty or CONFIG.ENDPOINTS.
Configs ==
    {[k \in (IF key = Undefined THEN {} ELSE {"API_KEY"})
            \cup (IF url = Undefined THEN {} ELSE {"API_BASE_URL"})
            \cup (IF eps = "absent" THEN {} ELSE {"ENDPOINTS"}) |->
        CASE k = "API_KEY" -> key
          [] k = "API_BASE_URL" -> url
          [] k = "ENDPOINTS" -> IF eps = "empty" THEN EmptyObject
                                ELSE CONFIG_ENDPOINTS] :
        key \in {Undefined, Null, "", "KEY"},
        url \in {Undefined, Null, "", API_BASE_URL},
        eps \in {"absent", "empty", "set"}}

\* ConfigValidator.validateConfig(config)
ValidateConfig ==
    /\ call = NoCall
    /\ \E config \in Configs :
          call' = [fn |-> "validateConfig", config |-> config,
                   threw |-> ConfigErrors(config) # <<>>,
                   error |-> IF ConfigErrors(config) # <<>>
                             THEN ConfigError(ConfigErrors(config)) ELSE NoError,
                   result |-> ConfigErrors(config) = <<>>]
    /\ UNCHANGED <<logs, triggers, fetchVars, sheetVars, runVars>>

(***************************************************************************)
(* C12: validateConfig throws one error whose message lists exactly the    *)
(* required fields that are missing (credential, base URL, endpoints), all *)
(* of them, and returns true exactly when none is missing.                 *)
(***************************************************************************)
C12_ValidateListsAllMissing ==
    call.fn = "validateConfig" =>
        LET c == call.config
            noKey == "API_KEY" \notin DOMAIN c \/ c["API_KEY"] \in {Null, ""}
            noUrl == "API_BASE_URL" \notin DOMAIN c \/ c["API_BASE_URL"] \in {Null, ""}
            noEps == "ENDPOINTS" \notin DOMAIN c \/ c["ENDPOINTS"] = EmptyObject
            listed(m) == Cardinality({i \in 1..Len(call.error.msg) :
                                        call.error.msg[i] = m})
        IN  /\ call.threw <=> (noKey \/ noUrl \/ noEps)
            /\ call.result <=> ~call.threw
            /\ call.threw =>
                  /\ listed("API_KEY is required") = IF noKey THEN 1 ELSE 0
                  /\ listed("API_BASE_URL is required") = IF noUrl THEN 1 ELSE 0
                  /\ listed("ENDPOINTS configuration is required")
                        = IF noEps THEN 1 ELSE 0
                  /\ Len(call.error.msg)
                        = 3 + (IF noKey THEN 1 ELSE 0) + (IF noUrl THEN 1 ELSE 0)
                            + (IF noEps THEN 1 ELSE 0)

C12_Witness ==
    /\ call.fn = "validateConfig"
    /\ call.threw
    /\ DOMAIN call.config = {"API_BASE_URL"}
    /\ call.config["API_BASE_URL"] = ""
    /\ Len(call.error.msg) = 6

\* The values logError is given as its error: an Error object, a string (a
\* value that was thrown but is no Error), null and undefined.
ErrorValues ==
    {[kind |-> "Error", name |-> "Error", msg |-> <<"boom">>],
     [kind |-> "string", msg |-> <<"boom">>],
     [kind |-> "null"],
     [kind |-> "undefined"]}

\* The values logError is given as additionalInfo: none (the default {}),
\* a plain object, null, and an object that refers to itself.
ExtraValues == {"default", "object", "null", "circular"}

\* The caught error e of the model as a value given to logError.
JsError(e) == [kind |-> "Error", name |-> e.name, msg |-> e.msg]

TypeError(words) == [name |-> "TypeError", msg |-> words]

\* error.toString() for a value that has the method.
ValueToString(v) == IF v.kind = "Error" THEN <<v.name>> \o v.msg ELSE v.msg

\* error.stack || 'No stack trace available'
StackOf(v) ==
    IF v.kind = "Error" THEN <<v.name>> \o v.msg \o <<"at", "<stack>">>
    ELSE <<"No", "stack", "trace", "available">>

\* ErrorReporter.logError(context, error, additionalInfo): reading toString
\* of null or undefined throws a TypeError, and so does JSON.stringify of a
\* circular structure; otherwise one line is logged.
LogError(context, error, extra) ==
    IF error.kind \in {"null", "undefined"}
    THEN [threw |-> TRUE, lines |-> <<>>,
          error |-> TypeError(<<"Cannot", "read", "properties", "of", error.kind>>)]
    ELSE IF extra = "circular"
    THEN [threw |-> TRUE, lines |-> <<>>,
          error |-> TypeError(<<"Converting", "circular", "structure", "to", "JSON">>)]
    ELSE [threw |-> FALSE, error |-> NoError,
          lines |-> << <<"ERROR:", "timestamp", "<now>", "context", context, "error">>
                       \o ValueToString(error) \o <<"stack">> \o StackOf(error)
                       \o <<"additionalInfo", IF extra = "default" THEN "{}" ELSE extra>> >>]

LogContexts == {"pullUpPromoteDataEnhanced", "testApiConnectionSecure"}

\* A call of ErrorReporter.logError.
LogErrorCall ==
    /\ call = NoCall
    /\ \E context \in LogContexts, error \in ErrorValues, extra \in ExtraValues :
          LET o == LogError(context, error, extra)
          IN  /\ call' = [fn |-> "logError", context |-> context, value |-> error,
                          extra |-> extra, threw |-> o.threw, error |-> o.error]
              /\ logs' = o.lines
    /\ UNCHANGED <<triggers, fetchVars, sheetVars, runVars>>

(***************************************************************************)
(* C13 (as stated): logError never throws: for every context, every error  *)
(* value (null, undefined and values that are no Error included) and every *)
(* additionalInfo it returns after writing one log record.                 *)
(***************************************************************************)
C13_LogErrorNeverThrows ==
    call.fn = "logError" => (~call.threw /\ Len(logs) = 1)

(***************************************************************************)
(* The connection tests testApiConnectionSecure (Setup.js) and             *)
(* testApiConnection (Code.js), with the lines they and the fetch log.     *)
(***************************************************************************)
\* The lines the fetch logs at event i of its log: makeApiRequest logs each
\* request, both clients log each page that holds records, ApiClient logs
\* each retry (before the sleep that follows the failed answer).
LinesAt(c, evs, ep, i) ==
    LET e == evs[i]
    IN  IF e.t = "req"
        THEN IF c = "makeApiRequest"
             THEN << <<"Fetching", "page", ToString(e.query.page), "from", ep>> >>
             ELSE <<>>
        ELSE IF e.t = "resp"
        THEN IF IsPage(e) /\ e.len > 0
             THEN << <<"Page", ToString(evs[i - 1].query.page), "Retrieved",
                       ToString(e.len), "records">>
                     \o (IF c = "ApiClient" THEN <<"from", ep>> ELSE <<>>) >>
             ELSE <<>>
        ELSE IF i > 1 /\ evs[i - 1].t = "resp" /\ Is429(evs[i - 1])
        THEN << <<"Rate", "limited,", "retrying", "in", ToString(e.ms), "ms">> >>
        ELSE IF i > 1 /\ evs[i - 1].t = "resp" /\ ~IsPage(evs[i - 1])
        THEN << <<"Request", "timeout,", "retrying">> >>
        ELSE <<>>

RECURSIVE LinesUpTo(_, _, _, _)
LinesUpTo(c, evs, ep, i) ==
    IF i = 0 THEN <<>> ELSE LinesUpTo(c, evs, ep, i - 1) \o LinesAt(c, evs, ep, i)

\* Everything a fetch that has ended has logged: the lines of its events and
\* then the total, or the error it throws (ApiClient logs that line again in
\* each frame the error passes).
FetchLog(c, evs, ep, state, pg, n, err) ==
    LinesUpTo(c, evs, ep, Len(evs))
    \o (IF state = "threw"
        THEN << <<"API", "request", "error", "for", ep, "page", ToString(pg)>>
                \o ErrorToString(err) >>
        ELSE << <<"Total", "records", "retrieved", "from", ep, ToString(n)>> >>)

\* JSON.stringify({ data: allData }), as words.
StringifyData(data) ==
    <<"data">> \o [i \in 1..Len(data) |-> ToString(data[i].id)]

\* testApiConnectionSecure up to its first HTTP request.
StartProbeSecure ==
    /\ rpc = "idle"
    /\ variant' = "enhanced"
    /\ IF Falsy(storedKey)
       THEN /\ rpc' = "probed"
            /\ call' = [fn |-> "testApiConnectionSecure", result |-> FALSE,
                        threw |-> FALSE]
            /\ logs' = << <<"Error:", "API", "key", "not", "found", "in",
                            "secure", "storage">> >>
            /\ UNCHANGED fetchVars
       ELSE /\ rpc' = "probe"
            /\ requestCount' = 0
            /\ BeginFetch("ApiClient", storedKey, EndpointOf("AFFILIATES"),
                          [limit |-> 1])
            /\ UNCHANGED <<call, logs, serverLastPage, httpCount, faults>>
    /\ UNCHANGED <<storedKey, configKey, resIdx, dataCounts, runError, attempts,
                   triggers, sheetVars>>

\* testApiConnection up to its first HTTP request.
StartProbeBasic ==
    /\ rpc = "idle"
    /\ variant' = "basic"
    /\ IF Falsy(configKey)
       THEN /\ rpc' = "probed"
            /\ call' = [fn |-> "testApiConnection", result |-> FALSE,
                        threw |-> FALSE]
            /\ logs' = << <<"Error:", "API", "key", "not", "configured">> >>
            /\ UNCHANGED fetchVars
       ELSE /\ rpc' = "probe"
            /\ BeginFetch("makeApiRequest", configKey, EndpointOf("AFFILIATES"),
                          [limit |-> 1])
            /\ UNCHANGED <<call, logs, requestCount, serverLastPage, httpCount,
                           faults>>
    /\ UNCHANGED <<storedKey, configKey, resIdx, dataCounts, runError, attempts,
                   triggers, sheetVars>>

\* The fetch of a connection test has ended: the test logs the outcome and
\* returns true, or catches the error, logs it and returns false.
ProbeReturns ==
    /\ rpc = "probe"
    /\ fpc \in {"returned", "threw"}
    /\ LET fetched == FetchLog(client, events, endpoint, fpc, page, Len(allData),
                               fetchError)
           reported == LogError("testApiConnectionSecure", JsError(fetchError),
                                "default")
           own == IF variant = "enhanced"
                  THEN IF fpc = "returned"
                       THEN << <<"API", "connection", "successful">>,
                               <<"Test", "response", "received", "with", "data",
                                 "length:", ToString(Len(allData))>> >>
                       ELSE reported.lines
                  ELSE IF fpc = "returned"
                       THEN << <<"API", "connection", "successful">>,
                               <<"Response:">> \o StringifyData(allData) >>
                       ELSE << <<"API", "connection", "failed:">>
                               \o ErrorToString(fetchError) >>
           threw == variant = "enhanced" /\ fpc = "threw" /\ reported.threw
       IN  /\ logs' = fetched \o own
           /\ call' = [fn |-> IF variant = "enhanced" THEN "testApiConnectionSecure"
                              ELSE "testApiConnection",
                       result |-> fpc = "returned", threw |-> threw]
    /\ rpc' = "probed"
    /\ UNCHANGED <<variant, storedKey, configKey, resIdx, dataCounts, runError,
                   attempts, triggers, fetchVars, sheetVars>>

ProbeInit ==
    /\ FetchIdle
    /\ serverLastPage = 0
    /\ sheets = EmptyObject
    /\ written = <<>>
    /\ writers = <<>>
    /\ RunIdle
    /\ UtilIdle
    /\ \E keys \in {<<Null, "">>, <<"KEY", "KEY">>} :
          storedKey = keys[1] /\ configKey = keys[2]

ProbeNext ==
    \/ StartProbeSecure
    \/ StartProbeBasic
    \/ ApiClientStep
    \/ MakeApiRequestStep
    \/ ProbeReturns

SpecProbe == ProbeInit /\ [][ProbeNext]_vars

(***************************************************************************)
(* C14 (as stated): no line logged by a connection test or by its fetch    *)
(* contains the credential, whatever the server answers.                   *)
(***************************************************************************)
C14_NoCredentialInLogs ==
    \A i \in 1..Len(logs) :
        ~Includes(logs[i], IF variant = "basic" THEN configKey ELSE storedKey)

(***************************************************************************)
(* C15 (as stated): a connection test sends one request, asking for one    *)
(* record (limit = 1), and returns true exactly when that request          *)
(* succeeded, false otherwise, without throwing.                           *)
(***************************************************************************)
C15_SingleRecordProbe ==
    rpc \in {"probe", "probed"} =>
        /\ Len(Requests(events)) <= 1
        /\ \A i \in 1..Len(Requests(events)) : Requests(events)[i].query.limit = 1
        /\ rpc = "probed" =>
              /\ ~call.threw
              /\ call.result <=> (fpc = "returned")

(***************************************************************************)
(* The triggers of the project (ScriptApp): setupTrigger and               *)
(* removeTriggers of Code.js, setupAdvancedTrigger of Setup.js.            *)
(***************************************************************************)
\* Triggers the model lets the project hold.
MaxTriggers == 3

\* The handler functions of the triggers: the two data pulls and a handler
\* that is none of the script's business.
Handlers == {"pullUpPromoteData", "pullUpPromoteDataEnhanced", "onOpen"}

\* ScriptApp.deleteTrigger for each trigger whose handler is h.
DeleteTriggersOf(ts, h) == SelectSeq(ts, LAMBDA t : t # h)

\* setupTrigger creating the new trigger without deleting the old ones.
SetupTriggerKeepOld(ts) == Append(ts, "pullUpPromoteData")

\* setupTrigger(): the triggers afterwards.
SetupTrigger(ts) ==
    Append(DeleteTriggersOf(ts, "pullUpPromoteData"), "pullUpPromoteData")

\* removeTriggers(): the triggers afterwards.
RemoveTriggers(ts) == DeleteTriggersOf(ts, "pullUpPromoteData")

\* setupAdvancedTrigger(): the triggers afterwards.
SetupAdvancedTrigger(ts) == Append(RemoveTriggers(ts), "pullUpPromoteDataEnhanced")

\* A call of fn that leaves the triggers ts.
TriggerCall(fn, ts) ==
    /\ Len(ts) <= MaxTriggers
    /\ triggers' = ts
    /\ call' = [fn |-> fn, before |-> triggers]
    /\ UNCHANGED <<logs, fetchVars, sheetVars, runVars>>

SetupTriggerCall == TriggerCall("setupTrigger", SetupTrigger(triggers))

SetupAdvancedTriggerCall ==
    TriggerCall("setupAdvancedTrigger", SetupAdvancedTrigger(triggers))

RemoveTriggersCall == TriggerCall("removeTriggers", RemoveTriggers(triggers))

\* The project starts with any triggers, left by earlier use.
TriggerInit ==
    /\ FetchIdle
    /\ serverLastPage = 0
    /\ sheets = EmptyObject
    /\ written = <<>>
    /\ writers = <<>>
    /\ RunIdle
    /\ storedKey = "KEY"
    /\ configKey = "KEY"
    /\ logs = <<>>
    /\ call = NoCall
    /\ triggers \in SeqsUpTo(Handlers, MaxTriggers)

TriggerNext ==
    \/ SetupTriggerCall
    \/ SetupAdvancedTriggerCall
    \/ RemoveTriggersCall

SpecTrigger == TriggerInit /\ [][TriggerNext]_vars

\* The triggers of ts whose handler is h.
CountOf(ts, h) == Cardinality({i \in 1..Len(ts) : ts[i] = h})

(***************************************************************************)
(* C16: after every call of setupTrigger, the first or a later one,        *)
(* exactly one trigger with handler pullUpPromoteData exists, whatever     *)
(* triggers existed before; the triggers of other handlers are left alone. *)
(***************************************************************************)
C16_OneDataPullTrigger ==
    call.fn = "setupTrigger" =>
        /\ CountOf(triggers, "pullUpPromoteData") = 1
        /\ \A h \in Handlers \ {"pullUpPromoteData"} :
              CountOf(triggers, h) = CountOf(call.before, h)

C16_Witness ==
    /\ call.fn = "setupTrigger"
    /\ CountOf(call.before, "pullUpPromoteData") = 2
    /\ CountOf(triggers, "pullUpPromoteData") = 1

(***************************************************************************)
(* C17 (as stated): after removeTriggers no trigger that runs a data pull  *)
(* remains, neither of handler pullUpPromoteData (setupTrigger) nor of     *)
(* handler pullUpPromoteDataEnhanced (setupAdvancedTrigger).               *)
(***************************************************************************)
C17_RemoveTriggersRemovesAll ==
    call.fn = "removeTriggers" =>
        /\ CountOf(triggers, "pullUpPromoteData") = 0
        /\ CountOf(triggers, "pullUpPromoteDataEnhanced") = 0

(***************************************************************************)
(* DataFormatter.formatDate. A date string is text the Date constructor    *)
(* can parse or text it cannot (the time value is then NaN).               *)
(***************************************************************************)
ParsableDates == {"2024-01-15T10:30:00Z", "2023-12-31"}

DateInputs == {Null, Undefined, "", "not-a-date", "tomorrow"} \cup ParsableDates

\* new Date(s).toLocaleString(): neither call throws; a Date whose time
\* value is NaN is shown as 'Invalid Date'.
ToLocaleString(s) ==
    CASE s = "2024-01-15T10:30:00Z" -> "1/15/2024, 10:30:00 AM"
      [] s = "2023-12-31" -> "12/31/2023, 12:00:00 AM"
      [] OTHER -> "Invalid Date"

\* DataFormatter.formatDate(dateString)
FormatDate(dateString) ==
    IF Falsy(dateString) THEN "" ELSE ToLocaleString(dateString)

FormatDateCall ==
    /\ call = NoCall
    /\ \E d \in DateInputs :
          call' = [fn |-> "formatDate", arg |-> d, threw |-> FALSE,
                   result |-> FormatDate(d)]
    /\ UNCHANGED <<logs, triggers, fetchVars, sheetVars, runVars>>

(***************************************************************************)
(* C18 (as stated): formatDate returns '' for null, undefined and '', and  *)
(* returns an input it cannot parse unchanged, never 'Invalid Date', and   *)
(* never throws.                                                           *)
(***************************************************************************)
C18_FormatDateKeepsUnparsable ==
    call.fn = "formatDate" =>
        /\ ~call.threw
        /\ call.arg \in {Null, Undefined, ""} => call.result = ""
        /\ call.arg \notin ({Null, Undefined, ""} \cup ParsableDates) =>
              call.result = call.arg
        /\ call.result # "Invalid Date"

(***************************************************************************)
(* DataFormatter.sanitizeString. A string is its sequence of characters.   *)
(***************************************************************************)
\* Length of the strings sanitizeString is given.
MaxStr == 4

Chars == {"a", " ", "\r", "\n", "\t"}

ControlChars == {"\r", "\n", "\t"}

\* What String.prototype.trim removes, among Chars.
Whitespace == {" ", "\r", "\n", "\t"}

\* "a\nb\tc\r"
ExampleString == <<"a", "\n", "b", "\t", "c", "\r">>

StringInputs ==
    {[kind |-> "null"], [kind |-> "undefined"],
     [kind |-> "string", chars |-> ExampleString]}
    \cup {[kind |-> "string", chars |-> cs] : cs \in SeqsUpTo(Chars, MaxStr)}

\* str.replace(/[\r\n\t]/g, ' ')
ReplaceControl(cs) ==
    [i \in 1..Len(cs) |-> IF cs[i] \in ControlChars THEN " " ELSE cs[i]]

RECURSIVE TrimStart(_)
TrimStart(cs) ==
    IF cs # <<>> /\ cs[1] \in Whitespace THEN TrimStart(Tail(cs)) ELSE cs

RECURSIVE TrimEnd(_)
TrimEnd(cs) ==
    IF cs # <<>> /\ cs[Len(cs)] \in Whitespace
    THEN TrimEnd(SubSeq(cs, 1, Len(cs) - 1)) ELSE cs

\* String.prototype.trim
Trim(cs) == TrimEnd(TrimStart(cs))

\* str.replace(/[\r\n\t]/, ' '): the first match only.
ReplaceFirstControl(cs) ==
    [i \in 1..Len(cs) |->
        IF cs[i] \in ControlChars /\ \A j \in 1..(i - 1) : cs[j] \notin ControlChars
        THEN " " ELSE cs[i]]

\* sanitizeString with a pattern that lacks the g flag.
SanitizeStringFirstOnly(str) ==
    IF str.kind # "string" \/ str.chars = <<>> THEN <<>>
    ELSE Trim(ReplaceFirstControl(str.chars))

\* DataFormatter.sanitizeString(str)
SanitizeString(str) ==
    IF str.kind # "string" \/ str.chars = <<>> THEN <<>>
    ELSE Trim(ReplaceControl(str.chars))

SanitizeStringCall ==
    /\ call = NoCall
    /\ \E str \in StringInputs :
          call' = [fn |-> "sanitizeString", arg |-> str, threw |-> FALSE,
                   result |-> SanitizeString(str)]
    /\ UNCHANGED <<logs, triggers, fetchVars, sheetVars, runVars>>

(***************************************************************************)
(* C19: sanitizeString returns its input with every carriage return,       *)
(* newline and tab replaced by one space and the leading and trailing      *)
(* whitespace removed: the result holds no \r, \n or \t, "a\nb\tc\r" gives *)
(* "a b c", and null and undefined give the empty string.                  *)
(***************************************************************************)
C19_SanitizeString ==
    call.fn = "sanitizeString" =>
        LET out == call.result
            in == IF call.arg.kind = "string" THEN call.arg.chars ELSE <<>>
            spaced(c) == IF c \in {"\r", "\n", "\t"} THEN " " ELSE c
        IN  /\ ~call.threw
            /\ call.arg.kind \in {"null", "undefined"} => out = <<>>
            /\ \A k \in 1..Len(out) : out[k] \notin {"\r", "\n", "\t"}
            /\ out # <<>> => (out[1] # " " /\ out[Len(out)] # " ")
            /\ \E a \in 0..Len(in) :
                  /\ a + Len(out) <= Len(in)
                  /\ \A k \in 1..Len(out) : out[k] = spaced(in[a + k])
                  /\ \A k \in (1..a) \cup ((a + Len(out) + 1)..Len(in)) :
                        spaced(in[k]) = " "
            /\ call.arg.kind = "string" /\ in = <<"a", "\n", "b", "\t", "c", "\r">>
                  => out = <<"a", " ", "b", " ", "c">>

C19_Witness ==
    /\ call.fn = "sanitizeString"
    /\ call.arg = [kind |-> "string", chars |-> <<"a", "\n", "b", "\t", "c", "\r">>]
    /\ call.result = <<"a", " ", "b", " ", "c">>

(***************************************************************************)
(* The row mapping of each pull function, on one raw record.               *)
(***************************************************************************)
\* The fields the row mapping of res reads.
FieldsOf(v, res) == {Columns(v, res)[j].field : j \in 1..Len(Columns(v, res))}

\* Raw records: without any field, with every field set or falsy (0), with
\* one field only, and with every field but one.
RawRecords(v, res) ==
    {EmptyObject}
    \cup {[f \in FieldsOf(v, res) |-> x] : x \in {0, 1}}
    \cup {[f \in {g} |-> 1] : g \in FieldsOf(v, res)}
    \cup {[f \in FieldsOf(v, res) \ {g} |-> 1] : g \in FieldsOf(v, res)}

\* The pull function of res maps one record to one row.
ProjectRowCall ==
    /\ call = NoCall
    /\ \E v \in {"enhanced", "basic"} :
       \E i \in 1..Len(ResourcesOf(v)) :
       \E rec \in RawRecords(v, ResourcesOf(v)[i]) :
          call' = [fn |-> "project", variant |-> v, res |-> ResourcesOf(v)[i],
                   record |-> rec, headers |-> Headers(v, ResourcesOf(v)[i]),
                   row |-> ProjectRows(v, ResourcesOf(v)[i], <<rec>>)[1]]
    /\ UNCHANGED <<logs, triggers, fetchVars, sheetVars, runVars>>

(***************************************************************************)
(* C20: for every resource of both script variants and every raw record,   *)
(* records that lack fields included, the row the pull function builds has *)
(* exactly as many cells as the headers array of that pull function.       *)
(***************************************************************************)
C20_RowWidthIsHeaderWidth ==
    call.fn = "project" =>
        /\ Len(call.row) = Len(call.headers)
        /\ Len(call.headers) > 0

C20_Witness ==
    /\ call.fn = "project"
    /\ call.variant = "basic"
    /\ call.res = "referrals"
    /\ call.record = EmptyObject
    /\ Len(call.row) = 17
    /\ Len(call.headers) = 17

(***************************************************************************)
(* The continuation decision of the fetch loop, on one parsed answer.      *)
(***************************************************************************)
\* The bodies JSON.parse can give for an answer to page 1.
PageBodies ==
    {JsonBody(hd, PageData(1, n), hm, m, hn) :
        hd \in BOOLEAN, n \in DataLens, hm \in BOOLEAN, m \in Metas,
        hn \in BOOLEAN}

\* The loop takes one answer; continues is hasMoreData after it.
TakePageCall ==
    /\ call = NoCall
    /\ \E body \in PageBodies :
          call' = [fn |-> "takePage", body |-> body,
                   continues |-> TakePage(body, 1, <<>>, 0, <<>>).fpc = "loop"]
    /\ UNCHANGED <<logs, triggers, fetchVars, sheetVars, runVars>>

\* One utility is called, on any of its inputs.
UtilInit ==
    /\ FetchIdle
    /\ serverLastPage = 0
    /\ sheets = EmptyObject
    /\ written = <<>>
    /\ writers = <<>>
    /\ RunIdle
    /\ UtilIdle
    /\ storedKey = "KEY"
    /\ configKey = "KEY"

UtilNext ==
    \/ ValidateConfig
    \/ LogErrorCall
    \/ FormatDateCall
    \/ SanitizeStringCall
    \/ ProjectRowCall
    \/ TakePageCall

SpecUtil == UtilInit /\ [][UtilNext]_vars

(***************************************************************************)
(* C21 (as stated): the retry counter of ApiClient.makeRequest is per      *)
(* page: when the loop goes on to a new page the counter is reset to 0, so *)
(* the 429s of that page have the whole budget of MaxRetries retries.      *)
(***************************************************************************)
C21_RetryCounterPerPage ==
    [][(/\ client = "ApiClient"
        /\ fpc = "loop"
        /\ fpc' = "loop"
        /\ page' = page + 1)
       => retryCount' = 0]_vars

(***************************************************************************)
(* C22 (as stated): in one top-level call of ApiClient.makeRequest the     *)
(* requests made again after a 429 or after a timeout, both kinds counted  *)
(* together, are never more than MaxRetries.                               *)
(***************************************************************************)
C22_RetriesWithinBudget ==
    client = "ApiClient" =>
        LET as == Answers(events)
            n == Len(Requests(events))
        IN  Cardinality({k \in 1..(n - 1) : Is429(as[k]) \/ IsTimeout(as[k])})
                <= MaxRetries

(***************************************************************************)
(* C23: when every request of an ApiClient.makeRequest call is answered    *)
(* 429, the call makes MaxRetries + 1 requests, sleeps 2^k seconds right   *)
(* after the 429 that the retry numbered k + 1 follows (1 s, 2 s, 4 s),    *)
(* and then throws the rate-limit error without a further sleep or         *)
(* request.                                                                *)
(***************************************************************************)
C23_RateLimitedThroughout ==
    (/\ client = "ApiClient"
     /\ \A k \in 1..Len(Answers(events)) : Is429(Answers(events)[k])) =>
        LET as == Answers(events)
            n == Len(as)
        IN  /\ n <= MaxRetries + 1
            /\ Len(Requests(events)) = n
            /\ fpc = "threw" <=> n = MaxRetries + 1
            /\ fpc = "threw" => fetchError = RateLimitError
            /\ fpc = "loop" => retryCount = n
            /\ fpc # "returned"
            /\ \A k \in 1..n :
                LET i == PositionOf(events, "resp", k)
                IN  IF k <= MaxRetries
                    THEN /\ i < Len(events)
                         /\ events[i + 1] = Sleep((2 ^ (k - 1)) * 1000)
                    ELSE i = Len(events)

C23_Witness ==
    /\ client = "ApiClient"
    /\ fpc = "threw"
    /\ fetchError = RateLimitError
    /\ Len(Requests(events)) = MaxRetries + 1
    /\ \A k \in 1..Len(Answers(events)) : Is429(Answers(events)[k])
    /\ Cardinality({j \in 1..Len(events) : events[j] = Sleep(4000)}) = 1

(***************************************************************************)
(* C24 (as stated): after a successful page the fetch continues iff the    *)
(* page holds records and: when meta.current_page and meta.last_page are   *)
(* present, current_page < last_page; else when links.next is present,     *)
(* always; else when the page holds exactly 100 records. A body whose meta *)
(* lacks current_page / last_page but which has links.next continues.      *)
(***************************************************************************)
C24_ContinuationPriority ==
    call.fn = "takePage" =>
        LET body == call.body
            hasPages == /\ "meta" \in DOMAIN body
                        /\ "current_page" \in DOMAIN body.meta
                        /\ "last_page" \in DOMAIN body.meta
        IN  call.continues <=>
                /\ "data" \in DOMAIN body
                /\ Len(body.data) > 0
                /\ IF hasPages
                   THEN body.meta.current_page < body.meta.last_page
                   ELSE IF "links" \in DOMAIN body /\ "next" \in DOMAIN body.links
                        THEN TRUE
                        ELSE Len(body.data) = PageLimit

(***************************************************************************)
(* C25: every request a fetch issues goes to the base URL plus the         *)
(* endpoint and carries limit = 100, page = the page the loop is at, the   *)
(* other params of the caller, Authorization: Bearer <credential> and      *)
(* Accept: application/json, whatever limit or page the caller passed.     *)
(***************************************************************************)
C25_RequestShape ==
    [][\A k \in (Len(events) + 1)..Len(events') :
         LET q == events'[k]
         IN  q.t = "req" =>
             /\ fpc = "loop"
             /\ q.url = <<API_BASE_URL, endpoint>>
             /\ DOMAIN q.query = DOMAIN params \cup {"limit", "page"}
             /\ q.query.limit = PageLimit
             /\ q.query.page = page
             /\ \A f \in DOMAIN params \ {"limit", "page"} : q.query[f] = params[f]
             /\ q.authorization = <<"Bearer", apiKey>>
             /\ q.accept = "application/json"]_vars

C25_Witness ==
    /\ fpc = "returned"
    /\ params = [limit |-> 1, page |-> 9]
    /\ Len(Requests(events)) = 2
    /\ Requests(events)[2].query = [limit |-> PageLimit, page |-> 2]
    /\ Requests(events)[2].authorization = <<"Bearer", "KEY">>

(***************************************************************************)
(* C26: a run handles the resources one at a time in the order affiliates, *)
(* referrals, coupons, payments (pullUpPromoteData: the first three):      *)
(* while a resource is fetched every request goes to its endpoint, the     *)
(* resources before it have been attempted, and neither its table, nor the *)
(* table of a later resource, nor the Summary table has been written; a    *)
(* step writes the table of the current resource only, and the Summary     *)
(* table only in the step that ends the last resource. (Stated on every    *)
(* step: the state conditions are those of the state the step leads to.)   *)
(***************************************************************************)
C26_ResourcesInOrder ==
    [][LET order == <<"affiliates", "referrals", "coupons", "payments">>
           n == IF variant' = "enhanced" THEN 4 ELSE 3
           untouched(name) ==
               name \notin DOMAIN sheets' \/ sheets'[name] = EarlierSheets[name]
           changed(name) ==
               \/ name \in DOMAIN sheets' /\ name \notin DOMAIN sheets
               \/ /\ name \in DOMAIN sheets'
                  /\ name \in DOMAIN sheets
                  /\ sheets'[name] # sheets[name]
       IN  /\ \A i \in 1..Len(attempts') : attempts'[i].res = order[i]
           /\ rpc' = "running" =>
                 /\ resIdx' \in 1..n
                 /\ Len(attempts') = resIdx' - 1
                 /\ \A k \in 1..Len(Requests(events')) :
                       Requests(events')[k].url
                           = <<API_BASE_URL, EndpointOf(EndpointKey(order[resIdx']))>>
                 /\ \A j \in resIdx'..n : untouched(SheetName(order[j]))
                 /\ untouched("Summary")
           /\ rpc' = "done" =>
                 /\ Len(attempts') = n
                 /\ variant' = "enhanced" => "Summary" \in DOMAIN sheets'
                 /\ variant' = "basic" => untouched("Summary")
           /\ sheets' # sheets =>
                 /\ rpc = "running"
                 /\ fpc \in {"returned", "threw"}
                 /\ Len(attempts') = resIdx
                 /\ DOMAIN sheets \subseteq DOMAIN sheets'
                 /\ \A name \in DOMAIN sheets' :
                       changed(name) =>
                           \/ name = SheetName(order[resIdx])
                           \/ /\ name = "Summary"
                              /\ variant = "enhanced"
                              /\ resIdx = 4]_vars

C26_Witness ==
    /\ rpc = "done"
    /\ variant = "enhanced"
    /\ sheets # EarlierSheets
    /\ \A i \in 1..4 :
          /\ attempts[i].outcome = "written"
          /\ SheetName(attempts[i].res) \in DOMAIN sheets
    /\ attempts[4].res = "payments"
    /\ "Summary" \in DOMAIN sheets

\* The data rows of a sheet: the rows below the header that hold a value.
DataRows(sh) == {d[1] : d \in {e \in DOMAIN sh.cells : e[1] >= 2}}

(***************************************************************************)
(* C27: for every resource of a run of pullUpPromoteDataEnhanced whose     *)
(* fetch returned records and whose table write succeeded, the count in    *)
(* dataCounts equals the number of data rows of its table and the number   *)
(* of records fetched; a count is non-zero only for a resource whose table *)
(* was written in this run.                                                *)
(***************************************************************************)
C27_CountIsRowsWritten ==
    variant = "enhanced" =>
        \A i \in 1..Len(attempts) :
            LET a == attempts[i]
                name == SheetName(a.res)
            IN  /\ a.res \in DOMAIN dataCounts
                /\ a.outcome = "written" =>
                      /\ dataCounts[a.res] = a.records
                      /\ name \in DOMAIN sheets
                      /\ DataRows(sheets[name]) = 2..(a.records + 1)
                      /\ Cardinality(DataRows(sheets[name])) = dataCounts[a.res]
                /\ dataCounts[a.res] # 0 => a.outcome = "written"

C27_Witness ==
    /\ rpc = "done"
    /\ variant = "enhanced"
    /\ attempts[1].outcome = "written"
    /\ dataCounts["affiliates"] = 1
    /\ Cardinality(DataRows(sheets["Affiliates"])) = 1
    /\ ~HoldsOldRows(sheets["Affiliates"])
    /\ attempts[2].outcome = "no data"
    /\ dataCounts["referrals"] = 0
    /\ HoldsOldRows(sheets["Referrals"])

(***************************************************************************)
(* Two runs writing the same table at the same time. A run's write is the  *)
(* sequence of backend calls of its writer; the calls of the two runs can  *)
(* come in any order, since nothing (no LockService lock) keeps a run from *)
(* starting while another is writing.                                      *)
(***************************************************************************)
\* The backend calls of a writer, in the order of its statements.
WriterSteps(writer) ==
    IF writer = "writeDataWithFormatting" THEN WriteSteps
    ELSE <<"clear", "header", "rows", "resize">>

\* WriteStep without the effect of sheet.clear().
WriteStepNoClear(sh, writer, headers, rows, step) ==
    LET w == Len(headers)
        formatted == writer = "writeDataWithFormatting"
    IN  CASE step = "clear" -> sh
          [] step = "header" ->
                SetFormats(SetValues(sh, 1, 1, 1, w, <<headers>>), Range(1, 1, 1, w),
                           IF formatted
                           THEN {"bold", "background #4285f4", "color #ffffff"}
                           ELSE {"bold"})
          [] step = "rows" ->
                IF Len(rows) > 0 THEN SetValues(sh, 2, 1, Len(rows), w, rows) ELSE sh
          [] step = "banding" ->
                IF Len(rows) > 0 THEN SetBanding(sh, 1, 1, Len(rows) + 1, w) ELSE sh
          [] step = "resize" -> sh
          [] step = "freeze" -> [sh EXCEPT !.frozenRows = 1]

\* One backend call of writeDataWithFormatting / writeDataToSheet on sheet sh.
WriteStep(sh, writer, headers, rows, step) ==
    LET w == Len(headers)
        formatted == writer = "writeDataWithFormatting"
    IN  CASE step = "clear" -> SheetClear(sh)
          [] step = "header" ->
                SetFormats(SetValues(sh, 1, 1, 1, w, <<headers>>), Range(1, 1, 1, w),
                           IF formatted
                           THEN {"bold", "background #4285f4", "color #ffffff"}
                           ELSE {"bold"})
          [] step = "rows" ->
                IF Len(rows) > 0 THEN SetValues(sh, 2, 1, Len(rows), w, rows) ELSE sh
          [] step = "banding" ->
                IF Len(rows) > 0 THEN SetBanding(sh, 1, 1, Len(rows) + 1, w) ELSE sh
          [] step = "resize" -> sh
          [] step = "freeze" -> [sh EXCEPT !.frozenRows = 1]

\* The write of the affiliates table by run number run, which fetched n
\* records: sheetManager.writeDataWithFormatting(sheet, headers, rows) or
\* writeDataToSheet(sheet, headers, rows), before its first backend call.
TableWrite(writer, run, n) ==
    LET v == IF writer = "writeDataWithFormatting" THEN "enhanced" ELSE "basic"
    IN  [writer |-> writer,
         headers |-> Headers(v, "affiliates"),
         rows |-> ProjectRows(v, "affiliates", PageData(run, n)),
         pc |-> 1,
         overlapped |-> FALSE]

\* The write has made its first backend call and not yet its last.
InProgress(w) == w.pc > 1 /\ w.pc <= Len(WriterSteps(w.writer))

\* Two runs of the same entry point are about to write the table an earlier
\* run left; each fetched at least one record (a pull function writes only
\* then).
OverlapInit ==
    /\ FetchIdle
    /\ serverLastPage = 0
    /\ sheets = [n \in {TABLE} |-> EarlierSheets[TABLE]]
    /\ written = <<>>
    /\ \E writer \in {"writeDataWithFormatting", "writeDataToSheet"} :
       \E n1 \in 1..MaxRows, n2 \in 1..MaxRows :
          writers = <<TableWrite(writer, 1, n1), TableWrite(writer, 2, n2)>>
    /\ RunIdle
    /\ UtilIdle
    /\ storedKey = "KEY"
    /\ configKey = "KEY"

\* Run i makes the next backend call of its write.
RunWriteStep(i) ==
    LET w == writers[i]
        j == 3 - i
        steps == WriterSteps(w.writer)
        ov == InProgress(writers[j])
        sh == WriteStep(sheets[TABLE], w.writer, w.headers, w.rows, steps[w.pc])
    IN  /\ w.pc <= Len(steps)
        /\ sheets' = PutSheet(sheets, TABLE, sh)
        /\ writers' = [writers EXCEPT ![i].pc = @ + 1,
                                      ![i].overlapped = @ \/ ov,
                                      ![j].overlapped = @ \/ ov]
        /\ written' = IF w.pc = Len(steps)
                      THEN Append(written,
                                  [writer |-> w.writer, headers |-> w.headers,
                                   rows |-> w.rows, failAt |-> "none",
                                   threw |-> FALSE, run |-> i, after |-> sh])
                      ELSE written
        /\ UNCHANGED <<fetchVars, runVars, utilVars>>

FirstRunWrites == RunWriteStep(1)

SecondRunWrites == RunWriteStep(2)

OverlapNext == FirstRunWrites \/ SecondRunWrites

SpecOverlap == OverlapInit /\ [][OverlapNext]_vars

(***************************************************************************)
(* C28: when the writes of two runs to the same table do not overlap, the  *)
(* table holds, once a write has ended, exactly the header and the rows of *)
(* the write that ended last; when their clear and write calls interleave  *)
(* the table can end holding neither run's header and rows (the witness).  *)
(***************************************************************************)
C28_SerialRunsLastWriterWins ==
    \A k \in 1..Len(written) :
        ~writers[written[k].run].overlapped =>
            /\ written[k].after.cells
                  = GridCells(<<written[k].headers>> \o written[k].rows)
            /\ (k = Len(written) /\ \A i \in 1..2 : ~InProgress(writers[i])) =>
                  sheets[TABLE] = written[k].after

C28_Witness ==
    /\ Len(written) = 2
    /\ writers[1].overlapped
    /\ writers[2].overlapped
    /\ \A i \in 1..2 :
          sheets[TABLE].cells # GridCells(<<writers[i].headers>> \o writers[i].rows)

(***************************************************************************)
(* C29 (as stated): setupAdvancedTrigger keeps the triggers of handler     *)
(* pullUpPromoteDataEnhanced at one at most: called on a project that has  *)
(* no more than one (none at first, or the one an earlier call created),   *)
(* it leaves exactly one.                                                  *)
(***************************************************************************)
C29_OneEnhancedTrigger ==
    (/\ call.fn = "setupAdvancedTrigger"
     /\ CountOf(call.before, "pullUpPromoteDataEnhanced") <= 1) =>
        CountOf(triggers, "pullUpPromoteDataEnhanced") = 1

\* The records of pages 1..n, page p holding len[p] records.
RECURSIVE PagesUpTo(_, _)
PagesUpTo(n, len) ==
    IF n = 0 THEN <<>> ELSE PagesUpTo(n - 1, len) \o PageData(n, len[n])

\* The k-th answer is a page after which the loop went on to the next page.
Continued(evs, k) ==
    LET i == PositionOf(evs, "resp", k)
    IN  i < Len(evs) /\ evs[i + 1] = Sleep(PageDelay)

\* The server's pages are stable: two answers to requests for the same page
\* that are pages hold the same records and the same continuation.
StablePages(evs) ==
    \A i, j \in 1..Len(Answers(evs)) :
        (/\ IsPage(Answers(evs)[i])
         /\ IsPage(Answers(evs)[j])
         /\ Requests(evs)[i].query.page = Requests(evs)[j].query.page) =>
            /\ Answers(evs)[i].len = Answers(evs)[j].len
            /\ Continued(evs, i) <=> Continued(evs, j)

(***************************************************************************)
(* C30: when ApiClient.makeRequest returns after at least one retry and    *)
(* the server's pages are stable, the data returned is the records of the  *)
(* pages 1..n in page order, each record once, where n is the highest page *)
(* requested in the call.                                                  *)
(***************************************************************************)
C30_RetryKeepsDataExact ==
    (/\ client = "ApiClient"
     /\ fpc = "returned"
     /\ \E k \in 1..Len(Answers(events)) : ~IsPage(Answers(events)[k])
     /\ StablePages(events)) =>
        LET reqs == Requests(events)
            as == Answers(events)
            pages == {reqs[k].query.page : k \in 1..Len(reqs)}
            n == CHOOSE p \in pages : \A q \in pages : q <= p
            len == [p \in 1..n |->
                      IF \E k \in 1..Len(as) : IsPage(as[k]) /\ reqs[k].query.page = p
                      THEN as[CHOOSE k \in 1..Len(as) :
                                 IsPage(as[k]) /\ reqs[k].query.page = p].len
                      ELSE 0]
        IN  /\ allData = PagesUpTo(n, len)
            /\ Cardinality({allData[i].id : i \in 1..Len(allData)}) = Len(allData)

C30_Witness ==
    /\ client = "ApiClient"
    /\ fpc = "returned"
    /\ StablePages(events)
    /\ Len(Answers(events)) = 4
    /\ IsPage(Answers(events)[1])
    /\ Is429(Answers(events)[2])
    /\ Requests(events)[2].query.page = 2
    /\ Requests(events)[3].query.page = 1
    /\ Requests(events)[4].query.page = 2
    /\ allData = PageData(1, 1) \o PageData(2, 1)

(***************************************************************************)
(* The fetch loop for as long as the server keeps it going. No decision of *)
(* the loop reads page, allData or the request count beyond "is it 0":     *)
(* hasMoreData comes from the answer alone, the retries from retryCount.   *)
(* So the pages after MaxPage are counted as one page, allData holds the   *)
(* records of the latest page only, and no log is kept; the control state  *)
(* (fpc, retryCount, frames) is exact.                                     *)
(***************************************************************************)
\* The page number as the loop state keeps it: MaxPage + 1 stands for every
\* page after MaxPage.
NextPage(pg) == IF pg > MaxPage THEN MaxPage + 1 ELSE pg

\* One iteration of the while loop of ApiClient.makeRequest, unlogged.
ApiClientLoops ==
    /\ fpc = "loop"
    /\ client = "ApiClient"
    /\ \E r \in ArbitraryResponses[page] :
        LET o == ApiClientIteration(r, page, <<>>, retryCount, frames)
        IN  /\ fpc' = o.fpc
            /\ page' = NextPage(o.page)
            /\ allData' = o.allData
            /\ retryCount' = o.retryCount
            /\ frames' = o.frames
            /\ fetchError' = o.error
            /\ requestCount' = IF r.thrown THEN requestCount ELSE 1
    /\ UNCHANGED <<client, apiKey, endpoint, params, events, serverLastPage,
                   httpCount, faults>>
    /\ UNCHANGED <<sheetVars, runVars, utilVars>>

\* One iteration of the while loop of makeApiRequest, unlogged.
MakeApiRequestLoops ==
    /\ fpc = "loop"
    /\ client = "makeApiRequest"
    /\ \E r \in ArbitraryResponses[page] :
        LET o == MakeApiRequestIteration(r, page, <<>>)
        IN  /\ fpc' = o.fpc
            /\ page' = NextPage(o.page)
            /\ allData' = o.allData
            /\ fetchError' = o.error
    /\ UNCHANGED <<client, apiKey, endpoint, params, retryCount, frames,
                   requestCount, events, serverLastPage, httpCount, faults>>
    /\ UNCHANGED <<sheetVars, runVars, utilVars>>

LoopInit ==
    /\ FetchIdle
    /\ serverLastPage = 0
    /\ sheets = EmptyObject
    /\ written = <<>>
    /\ writers = <<>>
    /\ RunIdle
    /\ UtilIdle
    /\ storedKey = "KEY"
    /\ configKey = "KEY"

LoopNext ==
    \/ CallMakeRequest
    \/ CallMakeApiRequest
    \/ ApiClientLoops
    \/ MakeApiRequestLoops

\* The script is single-threaded and synchronous: a loop that can make its
\* next iteration makes it.
SpecLoop ==
    /\ LoopInit
    /\ [][LoopNext]_vars
    /\ WF_vars(ApiClientLoops)
    /\ WF_vars(MakeApiRequestLoops)

(***************************************************************************)
(* C31 (as stated): a fetch that has been called eventually returns or     *)
(* throws, whatever the server answers.                                    *)
(***************************************************************************)
C31_FetchTerminates == (fpc = "loop") ~> (fpc \in {"returned", "threw"})

(***************************************************************************)
(* setupScript (Setup.js): the key is asked for, stored, tested with       *)
(* testApiConnectionSecure and deleted again when the test fails. The      *)
(* script properties are the variable storedKey (Null: no property).       *)
(***************************************************************************)
\* What Browser.inputBox returns: 'cancel' for the Cancel button, else the
\* text entered.
PromptAnswers == {"cancel", "", "NEW"}

\* AfterTest putting the earlier key back when the test fails.
AfterTestRestores(entered, before, ok) == IF ok THEN entered ELSE before

\* The stored key once the connection test of setupScript has returned ok:
\* the key stays, or ApiKeyManager.clearApiKey() deletes the property.
AfterTest(entered, before, ok) == IF ok THEN entered ELSE Null

\* setupScript from its call to the first HTTP request of the connection
\* test, or to its return when the prompt is cancelled or left empty.
StartSetupScript ==
    /\ rpc = "idle"
    /\ variant' = "enhanced"
    /\ \E input \in PromptAnswers :
          IF input = "cancel" \/ Falsy(input)
          THEN /\ rpc' = "set up"
               /\ call' = [fn |-> "setupScript", input |-> input,
                           before |-> storedKey, tested |-> FALSE, threw |-> FALSE]
               /\ logs' = << <<"Starting", "UpPromote", "API", "script", "setup...">>,
                             <<"Setup", "cancelled", "by", "user">> >>
               /\ UNCHANGED <<storedKey, fetchVars>>
          ELSE /\ rpc' = "setup"
               /\ storedKey' = input
               /\ call' = [fn |-> "setupScript", input |-> input,
                           before |-> storedKey, tested |-> FALSE, threw |-> FALSE]
               /\ logs' = << <<"Starting", "UpPromote", "API", "script", "setup...">>,
                             <<"API", "key", "stored", "securely">> >>
               /\ requestCount' = 0
               /\ BeginFetch("ApiClient", input, EndpointOf("AFFILIATES"),
                             [limit |-> 1])
               /\ UNCHANGED <<serverLastPage, httpCount, faults>>
    /\ UNCHANGED <<configKey, resIdx, dataCounts, runError, attempts, triggers,
                   sheetVars>>

\* The fetch of the connection test has ended: testApiConnectionSecure
\* returns, setupScript shows the message box (which may throw: the catch
\* block reports it) or clears the key, and returns.
SetupScriptReturns ==
    /\ rpc = "setup"
    /\ fpc \in {"returned", "threw"}
    /\ rpc' = "set up"
    /\ storedKey' = AfterTest(call.input, call.before, fpc = "returned")
    /\ \E boxThrows \in BOOLEAN :
          /\ boxThrows => fpc = "returned"
          /\ call' = [call EXCEPT !.tested = TRUE, !.threw = boxThrows]
    /\ logs' = logs \o FetchLog(client, events, endpoint, fpc, page, Len(allData),
                                fetchError)
                    \o (IF fpc = "returned"
                        THEN << <<"Setup", "completed", "successfully!">> >>
                        ELSE << <<"Setup", "failed">>, <<"API", "key", "cleared">> >>)
    /\ UNCHANGED <<variant, configKey, resIdx, dataCounts, runError, attempts,
                   triggers, fetchVars, sheetVars>>

\* The script properties hold no key or the key of an earlier setup.
SetupInit ==
    /\ FetchIdle
    /\ serverLastPage = 0
    /\ sheets = EmptyObject
    /\ written = <<>>
    /\ writers = <<>>
    /\ RunIdle
    /\ UtilIdle
    /\ storedKey \in {Null, "OLD"}
    /\ configKey = ""

SetupNext ==
    \/ StartSetupScript
    \/ ApiClientStep
    \/ SetupScriptReturns

SpecSetup == SetupInit /\ [][SetupNext]_vars

(***************************************************************************)
(* C32: when setupScript has returned, the stored key is the one stored    *)
(* before (or still none) if the prompt was cancelled or left empty, and   *)
(* no request was made; the key entered if the connection test succeeded;  *)
(* none at all if the test failed, whatever was stored before. While the   *)
(* test runs the key entered is the stored one.                            *)
(***************************************************************************)
C32_SetupLeavesStore ==
    /\ rpc = "setup" => storedKey = call.input
    /\ rpc = "set up" =>
          IF call.input \in {"cancel", ""}
          THEN /\ storedKey = call.before
               /\ ~call.tested
               /\ fpc = "idle"
               /\ httpCount = 0
          ELSE /\ call.tested
               /\ fpc = "returned" => storedKey = call.input
               /\ fpc = "threw" => storedKey = Null
               /\ fpc \in {"returned", "threw"}

C32_Witness ==
    /\ rpc = "set up"
    /\ call.before = "OLD"
    /\ call.input = "NEW"
    /\ call.tested
    /\ fpc = "threw"
    /\ storedKey = Null

(***************************************************************************)
(* C33 (as stated): every HTTP request of a run is sent to the base URL    *)
(* followed by one of the paths CONFIG.ENDPOINTS defines; no request is    *)
(* built from an endpoint that CONFIG.ENDPOINTS does not define.           *)
(***************************************************************************)
C33_DefinedEndpointsOnly ==
    rpc \in {"running", "done"} =>
        \A i \in 1..Len(events) :
            events[i].t = "req" =>
                /\ events[i].url[1] = API_BASE_URL
                /\ \E k \in DOMAIN CONFIG_ENDPOINTS :
                      events[i].url[2] = CONFIG_ENDPOINTS[k]

====
